---- MODULE Spec2Model ----
(***************************************************************************)
(* Relational core of bib-to-rcaap: the in-memory relational store         *)
(* (rcaap_relational.py), the sync orchestrator (relational_sync.py) and   *)
(* the persisted, worksheet-backed helpers it drives.                      *)
(*                                                                         *)
(* Python strings are modelled as sequences of one-character strings, so   *)
(* that strip(), lower(), str(), int() and the :03d format are computed    *)
(* and not assumed.  Python's None is the value None below.                *)
(***************************************************************************)
EXTENDS Integers, Sequences, FiniteSets, TLC

(***************************************************************************)
(* Bounds of the model                                                     *)
(***************************************************************************)
\* number of direct calls on the in-memory store in one behaviour
MaxCalls == 4
\* number of Title rows, and of Author rows, in one sync_entries batch
MaxBatch == 2
\* number of Title rows the in-memory store holds at most
MaxTitleRows == 2
\* number of add_author_title calls a client makes between sync_entries passes
MaxLinkCalls == 2
\* number of create_or_get_title_id calls on the persisted store
MaxSheetCalls == 3
\* number of write_authors calls, and of rows in one of them
MaxAuthorWrites == 2
MaxAuthorRows == 2
\* number of BibTeX entries in one parse
MaxEntries == 2

(***************************************************************************)
(* Strings                                                                 *)
(***************************************************************************)
None == <<"None">>

\* (val or "")
OrEmpty(val) == IF val = None THEN <<>> ELSE val

\* truthiness of a str-or-None value
Truthy(val) == val # None /\ val # <<>>

IsSpace(c) == c = " "

RECURSIVE LStrip(_)
LStrip(s) == IF s # <<>> /\ IsSpace(Head(s)) THEN LStrip(Tail(s)) ELSE s

RECURSIVE RStrip(_)
RStrip(s) == IF s # <<>> /\ IsSpace(s[Len(s)])
             THEN RStrip(SubSeq(s, 1, Len(s) - 1)) ELSE s

\* str.strip()
Strip(s) == RStrip(LStrip(s))

UpperChars == <<"A", "B", "C", "D", "E", "F", "G", "H", "I", "J", "K", "L", "M",
                "N", "O", "P", "Q", "R", "S", "T", "U", "V", "W", "X", "Y", "Z">>
LowerChars == <<"a", "b", "c", "d", "e", "f", "g", "h", "i", "j", "k", "l", "m",
                "n", "o", "p", "q", "r", "s", "t", "u", "v", "w", "x", "y", "z">>

LowerChar(c) == IF \E i \in 1..26 : UpperChars[i] = c
                THEN LowerChars[CHOOSE i \in 1..26 : UpperChars[i] = c]
                ELSE c

\* str.lower()
Lower(s) == [i \in 1..Len(s) |-> LowerChar(s[i])]

DigitChars == <<"0", "1", "2", "3", "4", "5", "6", "7", "8", "9">>

IsDigitChar(c) == \E d \in 1..10 : DigitChars[d] = c

DigitVal(c) == (CHOOSE d \in 1..10 : DigitChars[d] = c) - 1

\* str.isdigit() on ASCII text
IsDigit(s) == s # <<>> /\ \A i \in 1..Len(s) : IsDigitChar(s[i])

RECURSIVE NatStr(_)
NatStr(n) == IF n < 10 THEN <<DigitChars[n + 1]>>
             ELSE NatStr(n \div 10) \o <<DigitChars[(n % 10) + 1]>>

\* str(n) of an int
Str(n) == IF n < 0 THEN <<"-">> \o NatStr(0 - n) ELSE NatStr(n)

RECURSIVE DigitsVal(_)
DigitsVal(s) == IF s = <<>> THEN 0
                ELSE 10 * DigitsVal(SubSeq(s, 1, Len(s) - 1)) + DigitVal(s[Len(s)])

RECURSIVE ZeroPad(_, _)
ZeroPad(s, width) == IF Len(s) >= width THEN s ELSE ZeroPad(<<"0">> \o s, width)

\* f"{n:03d}" for n >= 0: at least three digits, more when n > 999
Fmt03d(n) == ZeroPad(NatStr(n), 3)

(***************************************************************************)
(* State                                                                   *)
(***************************************************************************)
VARIABLES
    \* InMemoryRelationalDB: the five row lists and the per-prefix counters
    publishers, venues, titles, authors, author_titles, counters,
    \* the most recent call of a store method (by a client or by
    \* sync_entries) with its arguments and what it returned, and the number
    \* of calls made by clients so far
    call, ncalls,
    \* sync_entries: its position, its arguments (titles, authors) and its
    \* local variables
    pc, batch, loc,
    \* the persisted store's worksheets, by title: the header row and the data
    \* rows below it, as cell values
    sheets,
    \* _assemble_preview_row: its arguments and, once it has returned, its result
    preview,
    \* the last call of the curation layer (validate_entry, enrich_entry,
    \* _build_display_entry): the entry it was given, the entry after the call,
    \* what the OpenAlex lookup did and what the call returned
    curation,
    \* two sync passes on one persisted store: for each, where its current
    \* get_or_create_publisher call stands, the rows it read and what its last
    \* call did
    writers,
    \* the in-memory store's Publisher, Venue and Author tables as they were
    \* when sync_entries was called again with the batch it had just synced
    first_pass

appvars == <<sheets, preview, curation, writers, first_pass>>

dbvars == <<publishers, venues, titles, authors, author_titles, counters>>

\* index of the first element of seq satisfying Test, 0 when there is none
\* (the "for r in rows: if ...: return r" idiom; 0 stands for None)
FirstIndex(seq, Test(_)) ==
    IF \E i \in 1..Len(seq) : Test(seq[i])
    THEN CHOOSE i \in 1..Len(seq) :
            Test(seq[i]) /\ \A j \in 1..(i - 1) : ~Test(seq[j])
    ELSE 0

PublisherRow(pid, name) ==
    ("ID Publisher" :> pid) @@ ("Publisher Name" :> name)

VenueRow(vid, name, id_publisher) ==
    ("ID Venue" :> vid) @@ ("Venue Name" :> name) @@ ("ID Publisher" :> id_publisher)

TitleRow(tid, title, year, id_venue, doi, url, abstract, type_, language, keywords) ==
    ("ID Title" :> tid) @@ ("Title" :> OrEmpty(title)) @@ ("Year" :> OrEmpty(year))
    @@ ("ID Venue" :> OrEmpty(id_venue)) @@ ("DOI" :> OrEmpty(doi))
    @@ ("URL" :> OrEmpty(url)) @@ ("Abstract" :> OrEmpty(abstract))
    @@ ("Type" :> OrEmpty(type_)) @@ ("Language" :> OrEmpty(language))
    @@ ("Keywords" :> OrEmpty(keywords))

AuthorRow(aid, name, orcid, affiliation) ==
    ("ID Author" :> aid) @@ ("Author Name" :> name)
    @@ ("ORCID" :> OrEmpty(orcid)) @@ ("Affiliation" :> OrEmpty(affiliation))

AuthorTitleRow(id_author, id_title, order) ==
    ("ID Author" :> id_author) @@ ("ID Title" :> id_title) @@ ("Order" :> Str(order))

(***************************************************************************)
(* InMemoryRelationalDB: each operation is given as its effect on the      *)
(* tables it touches together with the value it returns.                   *)
(***************************************************************************)
\* next_id drawing every prefix from one shared counter
next_id_shared_counter(prefix) ==
    LET n == counters["P"] + counters["V"] + counters["T"] + counters["A"] + 1
    IN  [counters |-> [counters EXCEPT ![prefix] = @ + 1],
         id |-> <<prefix>> \o Fmt03d(n)]

next_id(prefix) ==
    LET n == counters[prefix] + 1
    IN  [counters |-> [counters EXCEPT ![prefix] = n],
         id |-> <<prefix>> \o Fmt03d(n)]

get_publisher_by_name(name) ==
    LET nm == Strip(OrEmpty(name))
        Hit(p) == Strip(p["Publisher Name"]) = nm
    IN  FirstIndex(publishers, Hit)

\* get_or_create_publisher looking the name up as given, untrimmed
get_or_create_publisher_raw_lookup(name) ==
    LET nm == Strip(OrEmpty(name))
        Hit(r) == r["Publisher Name"] = OrEmpty(name)
        p == FirstIndex(publishers, Hit)
        nid == next_id("P")
    IN  IF p # 0
        THEN [publishers |-> publishers, counters |-> counters,
              ret |-> publishers[p]["ID Publisher"]]
        ELSE [publishers |-> Append(publishers, PublisherRow(nid.id, nm)),
              counters |-> nid.counters, ret |-> nid.id]

get_or_create_publisher(name) ==
    LET nm == Strip(OrEmpty(name))
        p == get_publisher_by_name(nm)
        nid == next_id("P")
    IN  IF p # 0
        THEN [publishers |-> publishers, counters |-> counters,
              ret |-> publishers[p]["ID Publisher"]]
        ELSE [publishers |-> Append(publishers, PublisherRow(nid.id, nm)),
              counters |-> nid.counters, ret |-> nid.id]

get_venue_by_name(name) ==
    LET nm == Strip(OrEmpty(name))
        Hit(v) == Strip(v["Venue Name"]) = nm
    IN  FirstIndex(venues, Hit)

\* get_or_create_venue handing out the ID of a new venue without storing its row
get_or_create_venue_no_append(name, id_publisher) ==
    LET nm == Strip(OrEmpty(name))
        v == get_venue_by_name(nm)
        nid == next_id("V")
    IN  IF v # 0
        THEN [venues |-> IF venues[v]["ID Publisher"] # id_publisher
                         THEN [venues EXCEPT ![v]["ID Publisher"] = id_publisher]
                         ELSE venues,
              counters |-> counters, ret |-> venues[v]["ID Venue"]]
        ELSE [venues |-> venues, counters |-> nid.counters, ret |-> nid.id]

\* get_or_create_venue replacing the row of a venue whose publisher differs
\* by a new row with a new ID
get_or_create_venue_replacing_row(name, id_publisher) ==
    LET nm == Strip(OrEmpty(name))
        v == get_venue_by_name(nm)
        nid == next_id("V")
        others == [k \in 1..(Len(venues) - 1) |->
                      IF k < v THEN venues[k] ELSE venues[k + 1]]
    IN  IF v # 0 /\ venues[v]["ID Publisher"] = id_publisher
        THEN [venues |-> venues, counters |-> counters, ret |-> venues[v]["ID Venue"]]
        ELSE [venues |-> Append(IF v # 0 THEN others ELSE venues,
                                VenueRow(nid.id, nm, id_publisher)),
              counters |-> nid.counters, ret |-> nid.id]

\* get_or_create_venue keeping the publisher a venue was created with
get_or_create_venue_first_write(name, id_publisher) ==
    LET nm == Strip(OrEmpty(name))
        v == get_venue_by_name(nm)
        nid == next_id("V")
    IN  IF v # 0
        THEN [venues |-> venues, counters |-> counters, ret |-> venues[v]["ID Venue"]]
        ELSE [venues |-> Append(venues, VenueRow(nid.id, nm, id_publisher)),
              counters |-> nid.counters, ret |-> nid.id]

get_or_create_venue(name, id_publisher) ==
    LET nm == Strip(OrEmpty(name))
        v == get_venue_by_name(nm)
        nid == next_id("V")
    IN  IF v # 0
        THEN [venues |-> IF venues[v]["ID Publisher"] # id_publisher
                         THEN [venues EXCEPT ![v]["ID Publisher"] = id_publisher]
                         ELSE venues,
              counters |-> counters, ret |-> venues[v]["ID Venue"]]
        ELSE [venues |-> Append(venues, VenueRow(nid.id, nm, id_publisher)),
              counters |-> nid.counters, ret |-> nid.id]

\* create_title leaving the Title row's ID Venue empty
create_title_venue_dropped(title, year, id_venue, doi, url, abstract, type_, language, keywords) ==
    LET nid == next_id("T")
    IN  [titles |-> Append(titles, TitleRow(nid.id, title, year, <<>>, doi, url,
                                            abstract, type_, language, keywords)),
         counters |-> nid.counters, ret |-> nid.id]

create_title(title, year, id_venue, doi, url, abstract, type_, language, keywords) ==
    LET nid == next_id("T")
    IN  [titles |-> Append(titles, TitleRow(nid.id, title, year, id_venue, doi, url,
                                            abstract, type_, language, keywords)),
         counters |-> nid.counters, ret |-> nid.id]

get_author_by_name(name) ==
    LET nm == Strip(OrEmpty(name))
        Hit(a) == Strip(a["Author Name"]) = nm
    IN  FirstIndex(authors, Hit)

\* get_or_create_author overwriting ORCID and Affiliation whenever supplied
get_or_create_author_overwrite(name, orcid, affiliation) ==
    LET nm == Strip(OrEmpty(name))
        a == get_author_by_name(nm)
        nid == next_id("A")
        a1 == IF Truthy(orcid)
              THEN [authors[a] EXCEPT !["ORCID"] = orcid] ELSE authors[a]
        a2 == IF Truthy(affiliation)
              THEN [a1 EXCEPT !["Affiliation"] = affiliation] ELSE a1
    IN  IF a # 0
        THEN [authors |-> [authors EXCEPT ![a] = a2], counters |-> counters,
              ret |-> authors[a]["ID Author"]]
        ELSE [authors |-> Append(authors, AuthorRow(nid.id, nm, orcid, affiliation)),
              counters |-> nid.counters, ret |-> nid.id]

get_or_create_author(name, orcid, affiliation) ==
    LET nm == Strip(OrEmpty(name))
        a == get_author_by_name(nm)
        nid == next_id("A")
        a1 == IF Truthy(orcid) /\ authors[a]["ORCID"] = <<>>
              THEN [authors[a] EXCEPT !["ORCID"] = orcid] ELSE authors[a]
        a2 == IF Truthy(affiliation) /\ a1["Affiliation"] = <<>>
              THEN [a1 EXCEPT !["Affiliation"] = affiliation] ELSE a1
    IN  IF a # 0
        THEN [authors |-> [authors EXCEPT ![a] = a2], counters |-> counters,
              ret |-> authors[a]["ID Author"]]
        ELSE [authors |-> Append(authors, AuthorRow(nid.id, nm, orcid, affiliation)),
              counters |-> nid.counters, ret |-> nid.id]

\* add_author_title appending a row also when the pair is already linked
add_author_title_always_append(id_author, id_title, order) ==
    Append(author_titles, AuthorTitleRow(id_author, id_title, order))

add_author_title(id_author, id_title, order) ==
    LET Hit(r) == r["ID Author"] = id_author /\ r["ID Title"] = id_title
        i == FirstIndex(author_titles, Hit)
    IN  IF i # 0
        THEN [author_titles EXCEPT ![i]["Order"] = Str(order)]
        ELSE Append(author_titles, AuthorTitleRow(id_author, id_title, order))

(***************************************************************************)
(* export_rcaap_rows                                                       *)
(***************************************************************************)
\* int(s) of a str: optional surrounding blanks, optional sign, decimal digits
ParseInt(s) ==
    LET t == Strip(s)
        signed == t # <<>> /\ Head(t) \in {"+", "-"}
        body == IF signed THEN Tail(t) ELSE t
    IN  IF IsDigit(body)
        THEN [ok |-> TRUE,
              n |-> IF signed /\ Head(t) = "-" THEN 0 - DigitsVal(body) ELSE DigitsVal(body)]
        ELSE [ok |-> FALSE, n |-> 0]

\* sorted(seq, key=Key): ascending and stable
SortedBy(seq, Key(_)) ==
    LET n == Len(seq)
        Rank(i) == 1 + Cardinality({j \in 1..n :
                        \/ Key(seq[j]) < Key(seq[i])
                        \/ Key(seq[j]) = Key(seq[i]) /\ j < i})
    IN  [p \in 1..n |-> seq[CHOOSE i \in 1..n : Rank(i) = p]]

\* [x for x in seq if Test(x)]
Filter(seq, Test(_)) ==
    LET idx == {i \in 1..Len(seq) : Test(seq[i])}
        Nth(k) == CHOOSE i \in idx : Cardinality({j \in idx : j < i}) = k - 1
    IN  [k \in 1..Cardinality(idx) |-> seq[Nth(k)]]

\* sep.join(parts)
RECURSIVE Join(_, _)
Join(parts, sep) ==
    IF parts = <<>> THEN <<>>
    ELSE IF Len(parts) = 1 THEN parts[1]
    ELSE parts[1] \o sep \o Join(Tail(parts), sep)

\* {row[keyField]: ... for row in rows}: the index of the row the dict keeps
\* for key k (the last one with that key), 0 when k is no key of the dict
DictIndex(rows, keyField, k) ==
    IF \E i \in 1..Len(rows) : rows[i][keyField] = k
    THEN CHOOSE i \in 1..Len(rows) :
            rows[i][keyField] = k /\ \A j \in (i + 1)..Len(rows) : rows[j][keyField] # k
    ELSE 0

RcaapRow(title, authors_joined, year, pub_name, doi) ==
    ("dc.title" :> title) @@ ("dc.contributor.author" :> authors_joined)
    @@ ("dc.date.issued" :> year) @@ ("dc.publisher" :> pub_name)
    @@ ("dc.identifier.doi" :> doi)

\* the (int(Order), ID Author) pairs of a title, sorted by order
title_authors(title_id) ==
    LET Of(at) == at["ID Title"] = title_id
        OrderOf(at) == ParseInt(at["Order"]).n
    IN  SortedBy(Filter(author_titles, Of), OrderOf)

\* export_rcaap_rows raises when an Order is no integer text (int()) or when a
\* linked ID Author is in no Authors row (author_map[a_id])
export_raises ==
    \/ \E i \in 1..Len(author_titles) : ~ParseInt(author_titles[i]["Order"]).ok
    \/ \E t \in 1..Len(titles) : \E i \in 1..Len(author_titles) :
          /\ author_titles[i]["ID Title"] = titles[t]["ID Title"]
          /\ DictIndex(authors, "ID Author", author_titles[i]["ID Author"]) = 0

export_rcaap_rows ==
    LET pub_name(t) ==
            LET v == DictIndex(venues, "ID Venue", t["ID Venue"])
                p == IF v = 0 THEN 0
                     ELSE DictIndex(publishers, "ID Publisher", venues[v]["ID Publisher"])
            IN  IF t["ID Venue"] = <<>> \/ v = 0 \/ p = 0 THEN <<>>
                ELSE publishers[p]["Publisher Name"]
        auths_sorted(t) ==
            LET auths == title_authors(t["ID Title"])
            IN  [k \in 1..Len(auths) |->
                    authors[DictIndex(authors, "ID Author", auths[k]["ID Author"])]["Author Name"]]
    IN  [t \in 1..Len(titles) |->
            RcaapRow(titles[t]["Title"], Join(auths_sorted(titles[t]), <<";", " ">>),
                     titles[t]["Year"], pub_name(titles[t]), titles[t]["DOI"])]

(***************************************************************************)
(* Calls of the store's methods by a client                                *)
(***************************************************************************)
\* a call: the method, its arguments (name, two further str arguments x and y,
\* order), what it returned (ret; raised and rows for export_rcaap_rows), and
\* prev, the call made before it
NoPrev == [op |-> "none", name |-> <<>>, x |-> <<>>, y |-> <<>>, order |-> 0, ret |-> <<>>]

NoCall == [op |-> "none", name |-> <<>>, x |-> <<>>, y |-> <<>>, order |-> 0, ret |-> <<>>,
           raised |-> FALSE, rows |-> <<>>, prev |-> NoPrev]

Call(op, name, x, y, order, ret) ==
    [op |-> op, name |-> name, x |-> x, y |-> y, order |-> order, ret |-> ret,
     raised |-> FALSE, rows |-> <<>>,
     prev |-> [op |-> call.op, name |-> call.name, x |-> call.x, y |-> call.y,
               order |-> call.order, ret |-> call.ret]]

Id(prefix, n) == <<prefix>> \o Fmt03d(n)

\* arguments the client calls are made with
PublisherNames == {None, <<"a">>, <<" ", "a">>, <<"b">>}
VenueNames == {<<"v">>, <<"v", " ">>}
PublisherIdArgs == {<<>>, Id("P", 1), Id("P", 2)}
TitleArgs == {[doi |-> <<>>, id_venue |-> <<>>],
              [doi |-> <<"d">>, id_venue |-> Id("V", 1)],
              [doi |-> <<"D">>, id_venue |-> None]}
AuthorNames == {<<"a">>, <<"a", " ">>, <<"b">>}
AuthorDetails == {[orcid |-> <<>>, affiliation |-> None],
                  [orcid |-> <<"x">>, affiliation |-> <<"u">>],
                  [orcid |-> <<"y">>, affiliation |-> <<"w">>]}
AuthorIdArgs == {Id("A", 1), Id("A", 2)}
TitleIdArgs == {Id("T", 1)}
OrderArgs == {1, 2}

syncvars == <<pc, batch, loc>>

CallGetOrCreatePublisher(name) ==
    /\ pc = "idle" /\ ncalls < MaxCalls
    /\ LET r == get_or_create_publisher(name)
       IN  /\ publishers' = r.publishers
           /\ counters' = r.counters
           /\ call' = Call("get_or_create_publisher", name, <<>>, <<>>, 0, r.ret)
    /\ ncalls' = ncalls + 1
    /\ UNCHANGED <<venues, titles, authors, author_titles, syncvars, appvars>>

CallGetOrCreateVenue(name, id_publisher) ==
    /\ pc = "idle" /\ ncalls < MaxCalls
    /\ LET r == get_or_create_venue(name, id_publisher)
       IN  /\ venues' = r.venues
           /\ counters' = r.counters
           /\ call' = Call("get_or_create_venue", name, id_publisher, <<>>, 0, r.ret)
    /\ ncalls' = ncalls + 1
    /\ UNCHANGED <<publishers, titles, authors, author_titles, syncvars, appvars>>

CallCreateTitle(title, id_venue, doi) ==
    /\ pc = "idle" /\ ncalls < MaxCalls
    /\ LET r == create_title(title, <<>>, id_venue, doi, <<>>, <<>>, <<>>, <<>>, <<>>)
       IN  /\ titles' = r.titles
           /\ counters' = r.counters
           /\ call' = Call("create_title", title, OrEmpty(id_venue), doi, 0, r.ret)
    /\ ncalls' = ncalls + 1
    /\ UNCHANGED <<publishers, venues, authors, author_titles, syncvars, appvars>>

CallGetOrCreateAuthor(name, orcid, affiliation) ==
    /\ pc = "idle" /\ ncalls < MaxCalls
    /\ LET r == get_or_create_author(name, orcid, affiliation)
       IN  /\ authors' = r.authors
           /\ counters' = r.counters
           /\ call' = Call("get_or_create_author", name, orcid, affiliation, 0, r.ret)
    /\ ncalls' = ncalls + 1
    /\ UNCHANGED <<publishers, venues, titles, author_titles, syncvars, appvars>>

CallAddAuthorTitle(id_author, id_title, order) ==
    /\ pc = "idle" /\ ncalls < MaxCalls
    /\ author_titles' = add_author_title(id_author, id_title, order)
    /\ call' = Call("add_author_title", <<>>, id_author, id_title, order, <<>>)
    /\ ncalls' = ncalls + 1
    /\ UNCHANGED <<publishers, venues, titles, authors, counters, syncvars, appvars>>

\* an export that takes the links of the titles it writes out of the list
export_author_titles_consumed ==
    LET Written(r) == \E t \in 1..Len(titles) : titles[t]["ID Title"] = r["ID Title"]
    IN  IF export_raises THEN author_titles
        ELSE SelectSeq(author_titles, LAMBDA r : ~Written(r))

\* the Author-Title list after export_rcaap_rows: it is only iterated, the
\* (order, author) pairs go to lists of the call's own and sorted() sorts a copy
export_author_titles == author_titles

CallExportRcaapRows ==
    /\ pc = "idle" /\ ncalls < MaxCalls
    /\ call' = [Call("export_rcaap_rows", <<>>, <<>>, <<>>, 0, <<>>) EXCEPT
                   !.raised = export_raises,
                   !.rows = IF export_raises THEN <<>> ELSE export_rcaap_rows]
    /\ author_titles' = export_author_titles
    /\ ncalls' = ncalls + 1
    /\ UNCHANGED <<publishers, venues, titles, authors, counters, syncvars, appvars>>

(***************************************************************************)
(* sync_entries on an InMemoryRelationalDB                                 *)
(***************************************************************************)
\* d.get(k, default)
Get(d, k, default) == IF k \in DOMAIN d THEN d[k] ELSE default

\* values an "order" field holds: an int, a str or None
IntVal(n) == [kind |-> "int", n |-> n, s |-> <<>>]
StrVal(s) == [kind |-> "str", n |-> 0, s |-> s]
NoneVal == [kind |-> "none", n |-> 0, s |-> <<>>]

\* int(float(s)) of a str written as digits with one decimal point
\* (optional blanks and sign): the integer part, truncated towards zero
ParseFloatTrunc(s) ==
    LET t == Strip(s)
        signed == t # <<>> /\ Head(t) \in {"+", "-"}
        body == IF signed THEN Tail(t) ELSE t
        dots == {i \in 1..Len(body) : body[i] = "."}
        dot == CHOOSE i \in dots : TRUE
        whole == SubSeq(body, 1, dot - 1)
        frac == SubSeq(body, dot + 1, Len(body))
        wellFormed == /\ Cardinality(dots) = 1
                      /\ whole \o frac # <<>>
                      /\ \A i \in 1..Len(whole) : IsDigitChar(whole[i])
                      /\ \A i \in 1..Len(frac) : IsDigitChar(frac[i])
    IN  IF wellFormed
        THEN [ok |-> TRUE,
              n |-> IF signed /\ Head(t) = "-" THEN 0 - DigitsVal(whole) ELSE DigitsVal(whole)]
        ELSE [ok |-> FALSE, n |-> 0]

\* _parse_order_local: int(val), else int(float(val)), else 0
parse_order_local(val) ==
    IF val.kind = "int" THEN val.n
    ELSE IF val.kind = "none" THEN 0
    ELSE IF ParseInt(val.s).ok THEN ParseInt(val.s).n
    ELSE IF ParseFloatTrunc(val.s).ok THEN ParseFloatTrunc(val.s).n
    ELSE 0

\* the title dicts and author dicts a batch is made of
TitleIn(key, publisher, journal, doi) ==
    ("key" :> key) @@ ("title" :> <<"t">>) @@ ("year" :> <<"9">>)
    @@ ("publisher" :> publisher) @@ ("journal" :> journal) @@ ("doi" :> doi)

AuthorIn(name, key, order) ==
    ("name" :> name) @@ ("key" :> key) @@ ("order" :> order)

SyncTitleRows ==
    { TitleIn(<<"k">>, <<"p">>, <<"j">>, <<"d">>),
      TitleIn(<<"k">>, <<>>, <<"j">>, <<"D">>),
      TitleIn(None, <<" ">>, <<"j", " ">>, <<>>),
      ("key" :> <<"m">>) @@ ("title" :> None) @@ ("publisher" :> <<"q">>) }

SyncAuthorRows ==
    { AuthorIn(<<"a">>, <<"k">>, IntVal(1)),
      AuthorIn(<<"b">>, <<"k">>, IntVal(2)),
      AuthorIn(<<"a">>, <<"k">>, StrVal(<<"2">>)),
      AuthorIn(<<"b">>, <<"k">>, StrVal(<<"f">>)),
      ("name" :> <<"c">>) @@ ("orcid" :> <<"x">>) @@ ("order" :> StrVal(<<"1", ".", "5">>)) }

\* the lists of at most n elements of S
ListsUpTo(S, n) == UNION {[1..k -> S] : k \in 0..n}

NoLocals == [i |-> 0, id_pub |-> <<>>, id_venue |-> <<>>, id_title |-> <<>>,
             pending |-> <<>>]

\* a loop over the titles that returns after its first iteration
NextTitleFirstOnly(i) ==
    /\ pc' = "idle"
    /\ loc' = [loc EXCEPT !.pending = <<>>]

\* the end of one iteration of "for t in titles": the next title, or return
NextTitle(i) ==
    IF i < Len(batch.titles)
    THEN /\ pc' = "publisher"
         /\ loc' = [NoLocals EXCEPT !.i = i + 1]
    ELSE /\ pc' = "idle"
         /\ loc' = [loc EXCEPT !.pending = <<>>]

\* sync_entries(db, titles, authors) is called
SyncBegin(ts, as) ==
    /\ pc = "idle"
    /\ Len(titles) + Len(ts) <= MaxTitleRows
    /\ batch' = [titles |-> ts, authors |-> as]
    /\ IF ts = <<>>
       THEN pc' = "idle" /\ loc' = NoLocals
       ELSE pc' = "publisher" /\ loc' = [NoLocals EXCEPT !.i = 1]
    /\ UNCHANGED <<dbvars, call, ncalls, appvars>>

\* id_pub = db.get_or_create_publisher(pub_name) if pub_name else ""
SyncPublisher ==
    /\ pc = "publisher"
    /\ LET pub_name == Get(batch.titles[loc.i], "publisher", <<>>)
           r == get_or_create_publisher(pub_name)
       IN  IF Truthy(pub_name)
           THEN /\ publishers' = r.publishers
                /\ counters' = r.counters
                /\ call' = Call("get_or_create_publisher", pub_name, <<>>, <<>>, 0, r.ret)
                /\ loc' = [loc EXCEPT !.id_pub = r.ret]
           ELSE /\ loc' = [loc EXCEPT !.id_pub = <<>>]
                /\ UNCHANGED <<publishers, counters, call>>
    /\ pc' = "venue"
    /\ UNCHANGED <<venues, titles, authors, author_titles, ncalls, batch, appvars>>

\* id_venue = db.get_or_create_venue(venue_name, id_pub) if venue_name else ""
SyncVenue ==
    /\ pc = "venue"
    /\ LET venue_name == Get(batch.titles[loc.i], "journal", <<>>)
           r == get_or_create_venue(venue_name, loc.id_pub)
       IN  IF Truthy(venue_name)
           THEN /\ venues' = r.venues
                /\ counters' = r.counters
                /\ call' = Call("get_or_create_venue", venue_name, loc.id_pub, <<>>, 0, r.ret)
                /\ loc' = [loc EXCEPT !.id_venue = r.ret]
           ELSE /\ loc' = [loc EXCEPT !.id_venue = <<>>]
                /\ UNCHANGED <<venues, counters, call>>
    /\ pc' = "title"
    /\ UNCHANGED <<publishers, titles, authors, author_titles, ncalls, batch, appvars>>

\* id_title = db.create_title(...); auths_for = [...]; sorted(auths_for, ...)
SyncTitle ==
    /\ pc = "title"
    /\ LET t == batch.titles[loc.i]
           r == create_title(Get(t, "title", <<>>), Get(t, "year", <<>>), loc.id_venue,
                             Get(t, "doi", <<>>), Get(t, "url", <<>>),
                             Get(t, "abstract", <<>>), Get(t, "type", <<>>),
                             Get(t, "language", <<>>), Get(t, "keywords", <<>>))
           SameKey(a) == Get(a, "key", None) = Get(t, "key", None)
           OrderOf(a) == parse_order_local(Get(a, "order", NoneVal))
           auths_sorted == SortedBy(Filter(batch.authors, SameKey), OrderOf)
       IN  /\ titles' = r.titles
           /\ counters' = r.counters
           /\ call' = Call("create_title", Get(t, "title", <<>>), loc.id_venue,
                           Get(t, "doi", <<>>), 0, r.ret)
           /\ IF auths_sorted = <<>>
              THEN NextTitle(loc.i)
              ELSE /\ pc' = "author"
                   /\ loc' = [loc EXCEPT !.id_title = r.ret, !.pending = auths_sorted]
    /\ UNCHANGED <<publishers, venues, authors, author_titles, ncalls, batch, appvars>>

\* one iteration of "for a in sorted(auths_for, ...)"
SyncAuthor ==
    /\ pc = "author"
    /\ LET a == Head(loc.pending)
           r == get_or_create_author(Get(a, "name", None), Get(a, "orcid", <<>>),
                                     Get(a, "affiliation", <<>>))
           order == parse_order_local(Get(a, "order", NoneVal))
       IN  /\ authors' = r.authors
           /\ counters' = r.counters
           /\ author_titles' = add_author_title(r.ret, loc.id_title, order)
           /\ call' = Call("add_author_title", <<>>, r.ret, loc.id_title, order, <<>>)
           /\ IF Tail(loc.pending) = <<>>
              THEN NextTitle(loc.i)
              ELSE /\ pc' = "author"
                   /\ loc' = [loc EXCEPT !.pending = Tail(loc.pending)]
    /\ UNCHANGED <<publishers, venues, titles, ncalls, batch, appvars>>

(***************************************************************************)
(* The app's preview: _assemble_preview_row                                *)
(***************************************************************************)
\* a or b
Or(a, b) == IF Truthy(a) THEN a ELSE b

\* s.split(): the maximal runs of non-blank characters
Split(s) ==
    LET starts == {i \in 1..Len(s) : ~IsSpace(s[i]) /\ (i = 1 \/ IsSpace(s[i - 1]))}
        EndOf(i) == CHOOSE j \in i..Len(s) :
                        /\ \A k \in i..j : ~IsSpace(s[k])
                        /\ (j = Len(s) \/ IsSpace(s[j + 1]))
        Nth(k) == CHOOSE i \in starts : Cardinality({j \in starts : j < i}) = k - 1
    IN  [k \in 1..Cardinality(starts) |-> SubSeq(s, Nth(k), EndOf(Nth(k)))]

\* _format_initial
format_initial(given) ==
    IF Truthy(given) /\ Strip(given) # <<>> THEN <<Strip(given)[1], ".">> ELSE <<>>

\* _format_author_name_from_parts
format_author_name_from_parts(given, family) ==
    IF ~Truthy(family) /\ ~Truthy(given) THEN <<>>
    ELSE IF ~Truthy(family) THEN given
    ELSE IF format_initial(given) # <<>>
         THEN family \o <<",", " ">> \o format_initial(given)
         ELSE family

\* _parse_order: int(val), else int(float(val)), else 0
parse_order(val) ==
    IF val.kind = "int" THEN val.n
    ELSE IF val.kind = "none" THEN 0
    ELSE IF ParseInt(val.s).ok THEN ParseInt(val.s).n
    ELSE IF ParseFloatTrunc(val.s).ok THEN ParseFloatTrunc(val.s).n
    ELSE 0

\* parts = name.strip().split() and the (given, family) taken from them;
\* parts[-1] raises IndexError when there is no part
name_parts(name) ==
    LET parts == Split(Strip(name))
    IN  IF parts = <<>> THEN [raises |-> TRUE, given |-> <<>>, family |-> <<>>]
        ELSE IF Len(parts) = 1 THEN [raises |-> FALSE, given |-> parts[1], family |-> <<>>]
        ELSE [raises |-> FALSE,
              given |-> Join(SubSeq(parts, 1, Len(parts) - 1), <<" ">>),
              family |-> parts[Len(parts)]]

\* what db._get_ws(title).get_all_records() gives: the records, or an exception
Records(rows) == [raises |-> FALSE, records |-> rows]
Unreadable == [raises |-> TRUE, records |-> <<>>]

\* the db argument: None, or a store with its worksheets
NoDb == [present |-> FALSE, ws |-> [title \in {"Venue", "Author-Title", "Authors"} |-> Unreadable]]
Db(venue_ws, author_title_ws, authors_ws) ==
    [present |-> TRUE,
     ws |-> ("Venue" :> venue_ws) @@ ("Author-Title" :> author_title_ws)
            @@ ("Authors" :> authors_ws)]

\* the parsed_authors argument: None, or a list of author dicts
NoParsedAuthors == [present |-> FALSE, rows |-> <<>>]
ParsedAuthors(rows) == [present |-> TRUE, rows |-> rows]

UnknownVenue == <<"U", "n", "k", "n", "o", "w", "n", " ", "V", "e", "n", "u", "e">>

\* venue_name with no placeholder: the row's journal or Venue, else ''
preview_venue_name_no_placeholder(title_row, db) ==
    Or(Get(title_row, "journal", None), Or(Get(title_row, "Venue", None), <<>>))

\* venue_name: by ID Venue, else by journal name, from the Venue worksheet;
\* else the row's journal or Venue, else 'Unknown Venue'
preview_venue_name(title_row, db) ==
    LET id_venue == Get(title_row, "ID Venue", None)
        journal_name == Or(Get(title_row, "journal", None),
                           Or(Get(title_row, "Venue", None), <<>>))
        venue_rows == db.ws["Venue"].records
        ById(r) == Get(r, "ID Venue", None) = id_venue
        vm == FirstIndex(venue_rows, ById)
        by_id == IF Truthy(id_venue) /\ vm # 0
                 THEN Get(venue_rows[vm], "Venue Name", None) ELSE <<>>
        ByName(r) == Lower(Strip(Or(Get(r, "Venue Name", None), <<>>)))
                        = Lower(Strip(journal_name))
        vn == FirstIndex(venue_rows, ByName)
        by_name == IF Truthy(by_id) \/ ~Truthy(journal_name) THEN by_id
                   ELSE IF vn # 0 THEN Get(venue_rows[vn], "Venue Name", None) ELSE <<>>
        from_db == IF ~db.present \/ db.ws["Venue"].raises THEN <<>> ELSE by_name
    IN  IF Truthy(from_db) THEN from_db
        ELSE Or(Get(title_row, "journal", None),
                Or(Get(title_row, "Venue", None), UnknownVenue))

IsNonEmpty(x) == x # <<>>

\* authors_line from the Author-Title and Authors worksheets; '' when reading
\* them or formatting a name raises
preview_authors_db(title_row, db) ==
    LET at_rows == db.ws["Author-Title"].records
        authors_rows == db.ws["Authors"].records
        title_id == Or(Get(title_row, "ID Title", None), <<>>)
        Linked(r) == Get(r, "ID Title", None) = title_id
        OrderOf(r) == parse_order(Get(r, "Order", NoneVal))
        ordered == SortedBy(Filter(at_rows, Linked), OrderOf)
        NameOf(l) ==
            LET aid == Get(l, "ID Author", None)
                hits == {i \in 1..Len(authors_rows) :
                            Get(authors_rows[i], "ID Author", None) = aid}
            IN  IF hits = {} THEN <<>>
                ELSE Get(authors_rows[CHOOSE i \in hits : \A j \in hits : j <= i],
                         "Author Name", None)
        Named(l) == Truthy(NameOf(l))
        named == Filter(ordered, Named)
        raises == \/ db.ws["Author-Title"].raises \/ db.ws["Authors"].raises
                  \/ \E k \in 1..Len(named) : name_parts(NameOf(named[k])).raises
        formatted == [k \in 1..Len(named) |->
                        format_author_name_from_parts(name_parts(NameOf(named[k])).given,
                                                      name_parts(NameOf(named[k])).family)]
    IN  IF raises THEN <<>> ELSE Join(Filter(formatted, IsNonEmpty), <<";", " ">>)

\* authors_line from parsed_authors; '' when int(order) or formatting a name raises
preview_authors_parsed(title_row, parsed_authors) ==
    LET key == Get(title_row, "key", None)
        SameKey(a) == Get(a, "key", None) = key
        auths == Filter(parsed_authors.rows, SameKey)
        IntRaises(a) == LET o == Get(a, "order", IntVal(0))
                        IN  o.kind = "none" \/ (o.kind = "str" /\ ~ParseInt(o.s).ok)
        IntOf(a) == LET o == Get(a, "order", IntVal(0))
                    IN  IF o.kind = "int" THEN o.n ELSE ParseInt(o.s).n
        auths_sorted == SortedBy(auths, IntOf)
        given(a) == Or(Get(a, "given_name", None), <<>>)
        family(a) == Or(Get(a, "family_name", None), <<>>)
        FromName(a) == ~(Truthy(given(a)) \/ Truthy(family(a)))
        name_norm(a) == Or(Get(a, "name_normalized", None), Or(Get(a, "name", None), <<>>))
        raises == \/ \E k \in 1..Len(auths) : IntRaises(auths[k])
                  \/ \E k \in 1..Len(auths) :
                        FromName(auths[k]) /\ name_parts(name_norm(auths[k])).raises
        Formatted(a) ==
            IF FromName(a)
            THEN format_author_name_from_parts(name_parts(name_norm(a)).given,
                                               name_parts(name_norm(a)).family)
            ELSE format_author_name_from_parts(given(a), family(a))
        formatted == [k \in 1..Len(auths_sorted) |-> Formatted(auths_sorted[k])]
    IN  IF raises THEN <<>> ELSE Join(Filter(formatted, IsNonEmpty), <<";", " ">>)

\* _assemble_preview_row(title_row, db, parsed_authors): the dict it returns
assemble_preview_row(title_row, db, parsed_authors) ==
    LET from_db == IF db.present THEN preview_authors_db(title_row, db) ELSE <<>>
        authors_line == IF ~Truthy(from_db) /\ parsed_authors.present
                        THEN preview_authors_parsed(title_row, parsed_authors)
                        ELSE from_db
    IN  ("Title" :> Or(Get(title_row, "Title", None), Or(Get(title_row, "title", None), <<>>)))
        @@ ("Year" :> Or(Get(title_row, "Year", None), Or(Get(title_row, "year", None), <<>>)))
        @@ ("DOI" :> Strip(Or(Get(title_row, "DOI", None),
                              Or(Get(title_row, "doi", None), <<>>))))
        @@ ("URL" :> Or(Get(title_row, "URL", None), Or(Get(title_row, "url", None), <<>>)))
        @@ ("Venue Name" :> preview_venue_name(title_row, db))
        @@ ("authors_line" :> authors_line)
        @@ ("ID Title" :> Or(Get(title_row, "ID Title", None),
                             Or(Get(title_row, "id", None), Get(title_row, "key", None))))
        @@ ("ID Venue" :> Or(Get(title_row, "ID Venue", None), None))

\* no call of _assemble_preview_row in this run
NoPreview == [done |-> FALSE, title_row |-> <<>>, db |-> NoDb,
              parsed_authors |-> NoParsedAuthors, result |-> <<>>]

\* the title rows _assemble_preview_row is called with: rows of the store's
\* Title table (one naming a venue that is not there) and a row of the parser
PreviewTitleRows ==
    { ("ID Title" :> Id("T", 1)) @@ ("ID Venue" :> <<"V", "9">>) @@ ("Title" :> <<"t">>)
         @@ ("key" :> <<"k">>),
      ("key" :> <<"k">>) @@ ("title" :> <<"t">>) @@ ("journal" :> <<"j">>),
      ("ID Title" :> Id("T", 1)) @@ ("ID Venue" :> Id("V", 1)) @@ ("Title" :> <<"t">>)
         @@ ("Venue" :> <<" ", "J">>) }

LinkRecord(id_title, id_author, order) ==
    ("ID Title" :> id_title) @@ ("ID Author" :> id_author) @@ ("Order" :> order)

AuthorRecord(id_author, name) ==
    ("ID Author" :> id_author) @@ ("Author Name" :> name)

\* the worksheets it reads: empty, filled or unreadable, the Author-Title
\* rows holding orders that are numbers, numerals and words
PreviewVenueSheets ==
    { Records(<<>>),
      Records(<<VenueRow(Id("V", 1), <<"j">>, <<>>)>>),
      Unreadable }

PreviewAuthorTitleSheets ==
    { Records(<<LinkRecord(Id("T", 1), Id("A", 1), StrVal(<<"f">>)),
                LinkRecord(Id("T", 1), Id("A", 2), StrVal(<<"2">>))>>),
      Records(<<LinkRecord(Id("T", 1), Id("A", 2), IntVal(2)),
                LinkRecord(Id("T", 1), Id("A", 1), StrVal(<<"f">>))>>),
      Records(<<>>),
      Unreadable }

PreviewAuthorsSheets ==
    { Records(<<AuthorRecord(Id("A", 1), <<"a", " ", "e">>),
                AuthorRecord(Id("A", 2), <<"b", " ", "t">>)>>),
      Records(<<AuthorRecord(Id("A", 2), <<"b">>)>>),
      Unreadable }

PreviewDbs ==
    {NoDb} \cup {Db(v, l, a) : v \in PreviewVenueSheets, l \in PreviewAuthorTitleSheets,
                               a \in PreviewAuthorsSheets}

ParsedAuthor(key, order, given_name, family_name) ==
    ("key" :> key) @@ ("order" :> order) @@ ("given_name" :> given_name)
    @@ ("family_name" :> family_name)

\* the parsed_authors it is given: None, empty or two authors
PreviewParsedAuthors ==
    { NoParsedAuthors,
      ParsedAuthors(<<>>),
      ParsedAuthors(<<ParsedAuthor(<<"k">>, StrVal(<<"f">>), <<"a">>, <<"e">>),
                      ParsedAuthor(<<"k">>, StrVal(<<"2">>), <<"b">>, <<"t">>)>>),
      ParsedAuthors(<<ParsedAuthor(<<"k">>, IntVal(2), <<"b">>, <<"t">>),
                      ParsedAuthor(<<"k">>, StrVal(<<"f">>), <<"a">>, <<"e">>)>>),
      ParsedAuthors(<<ParsedAuthor(<<"k">>, IntVal(2), <<"b">>, <<"t">>),
                      ("key" :> <<"k">>) @@ ("order" :> IntVal(1))
                         @@ ("name" :> <<"a", " ", "e">>)>>) }

PreviewCalls ==
    {[done |-> FALSE, title_row |-> t, db |-> d, parsed_authors |-> pa, result |-> <<>>] :
        t \in PreviewTitleRows, d \in PreviewDbs, pa \in PreviewParsedAuthors}

\* _assemble_preview_row is called and returns
AssemblePreview ==
    /\ pc = "idle" /\ preview \in PreviewCalls
    /\ preview' = [preview EXCEPT
                      !.done = TRUE,
                      !.result = assemble_preview_row(preview.title_row, preview.db,
                                                      preview.parsed_authors)]
    /\ UNCHANGED <<dbvars, call, ncalls, syncvars, sheets, curation, writers, first_pass>>

(***************************************************************************)
(* The persisted store: the Title worksheet and create_or_get_title_id     *)
(***************************************************************************)
\* a worksheet: its header row and the rows below it; an empty worksheet has
\* neither
Worksheet(header, rows) == [header |-> header, rows |-> rows]

\* the worksheets of the spreadsheet, all blank
BlankSheets ==
    [title \in {"Publisher", "Venue", "Title", "Authors", "Author-Title"} |->
        Worksheet(<<>>, <<>>)]

\* ws.get_all_records(): one dict per data row, keyed by the header's cells,
\* a cell missing at the end of a row read as ''
get_all_records(ws) ==
    [i \in 1..Len(ws.rows) |->
        [col \in {ws.header[j] : j \in 1..Len(ws.header)} |->
            LET j == CHOOSE k \in 1..Len(ws.header) : ws.header[k] = col
            IN  IF j <= Len(ws.rows[i]) THEN ws.rows[i][j] ELSE <<>>]]

\* s.lstrip(chars)
RECURSIVE LStripChars(_, _)
LStripChars(s, chars) ==
    IF s # <<>> /\ \E i \in 1..Len(chars) : chars[i] = Head(s)
    THEN LStripChars(Tail(s), chars) ELSE s

\* s.startswith(prefix)
StartsWith(s, prefix) ==
    Len(s) >= Len(prefix) /\ SubSeq(s, 1, Len(prefix)) = prefix

\* max(nums) if nums else 0
MaxOrZero(nums) == IF nums = {} THEN 0 ELSE CHOOSE n \in nums : \A m \in nums : m <= n

\* an ID made from the number of rows read, not from their largest suffix
sheet_next_id_row_count(existing_ids, prefix) ==
    prefix \o Fmt03d(Len(existing_ids) + 1)

\* _next_id(existing_ids, prefix) of the persisted store
sheet_next_id(existing_ids, prefix) ==
    LET nums == {DigitsVal(LStripChars(existing_ids[i], prefix)) :
                    i \in {k \in 1..Len(existing_ids) :
                            /\ existing_ids[k] # <<>>
                            /\ StartsWith(existing_ids[k], prefix)
                            /\ IsDigit(LStripChars(existing_ids[k], prefix))}}
    IN  prefix \o Fmt03d(MaxOrZero(nums) + 1)

\* a merged header that puts the new field names first
MergeHeadersNewFirst(existing_header, headers) ==
    LET IsOld(col) == \A j \in 1..Len(headers) : headers[j] # col
    IN  headers \o Filter(existing_header, IsOld)

\* list(dict.fromkeys(existing_header + headers))
MergeHeaders(existing_header, headers) ==
    LET all == existing_header \o headers
        idx == {i \in 1..Len(all) : \A j \in 1..(i - 1) : all[j] # all[i]}
        Nth(k) == CHOOSE i \in idx : Cardinality({j \in idx : j < i}) = k - 1
    IN  [k \in 1..Cardinality(idx) |-> all[Nth(k)]]

\* RCAAPDatabase._append_dicts(title, rows) on worksheet ws, rows being the
\* dicts ds and rows[0] having its keys in the order of headers
append_dict_rows(ws, headers, ds) ==
    LET blank == ws.header = <<>> /\ ws.rows = <<>>
        existing_header == IF blank THEN headers ELSE ws.header
        final_headers == IF existing_header # headers
                         THEN MergeHeaders(existing_header, headers)
                         ELSE existing_header
        to_append == [k \in 1..Len(ds) |->
                         [j \in 1..Len(final_headers) |-> Get(ds[k], final_headers[j], <<>>)]]
    IN  IF ds = <<>> THEN ws
        ELSE Worksheet(final_headers, ws.rows \o to_append)

\* _append_dicts(title, [d])
append_dicts(ws, headers, d) == append_dict_rows(ws, headers, <<d>>)

\* the keys of the dict create_or_get_title_id appends, in sync_entries
TitleHeaders ==
    <<"ID Title", "Title", "Year", "ID Venue", "DOI", "URL",
      "Abstract", "Type", "Language", "Keywords">>

\* and in the app's sheet sync
AppTitleHeaders == TitleHeaders \o <<"Status">>

\* the dict of the new Title row; the app's variant fills in a Status too
\* (a value None is written as an empty cell)
NewTitleDict(nid, title_row, withStatus) ==
    LET base == ("ID Title" :> nid)
                @@ ("Title" :> OrEmpty(Get(title_row, "title", <<>>)))
                @@ ("Year" :> OrEmpty(Get(title_row, "year", <<>>)))
                @@ ("ID Venue" :> OrEmpty(Get(title_row, "id_venue", <<>>)))
                @@ ("DOI" :> OrEmpty(Get(title_row, "doi", <<>>)))
                @@ ("URL" :> OrEmpty(Get(title_row, "url", <<>>)))
                @@ ("Abstract" :> OrEmpty(Get(title_row, "abstract", <<>>)))
                @@ ("Type" :> OrEmpty(Get(title_row, "type", <<>>)))
                @@ ("Language" :> OrEmpty(Get(title_row, "language", <<>>)))
                @@ ("Keywords" :> OrEmpty(Get(title_row, "keywords", <<>>)))
    IN  IF withStatus
        THEN base @@ ("Status" :> Get(title_row, "status",
                                      <<"V", "e", "r", "i", "f", "i", "e", "d">>))
        ELSE base

\* create_or_get_title_id comparing the DOI cell with the incoming DOI as they are
create_or_get_title_id_exact_match(title_row, withStatus) ==
    LET ws == sheets["Title"]
        rows == get_all_records(ws)
        doi == OrEmpty(Get(title_row, "doi", None))
        Matches(r) == doi # <<>> /\ Get(r, "DOI", <<>>) = doi
        hit == FirstIndex(rows, Matches)
        existing_ids == [i \in 1..Len(rows) |-> Get(rows[i], "ID Title", <<>>)]
        nid == sheet_next_id(existing_ids, <<"T">>)
    IN  IF hit # 0
        THEN [ws |-> ws, ret |-> Get(rows[hit], "ID Title", None)]
        ELSE [ws |-> append_dicts(ws, IF withStatus THEN AppTitleHeaders ELSE TitleHeaders,
                                  NewTitleDict(nid, title_row, withStatus)),
              ret |-> nid]

\* create_or_get_title_id(title_row), of sync_entries (withStatus FALSE) and
\* of the app's sheet sync (withStatus TRUE): the Title worksheet afterwards
\* and the ID returned
\* create_or_get_title_id whose new row never reaches the worksheet
create_or_get_title_id_uncommitted(title_row, withStatus) ==
    LET ws == sheets["Title"]
        rows == get_all_records(ws)
        doi == Strip(OrEmpty(Get(title_row, "doi", None)))
        Matches(r) == doi # <<>> /\ Lower(Strip(Get(r, "DOI", <<>>))) = Lower(doi)
        hit == FirstIndex(rows, Matches)
        existing_ids == [i \in 1..Len(rows) |-> Get(rows[i], "ID Title", <<>>)]
    IN  [ws |-> ws,
         ret |-> IF hit # 0 THEN Get(rows[hit], "ID Title", None)
                 ELSE sheet_next_id(existing_ids, <<"T">>)]

create_or_get_title_id(title_row, withStatus) ==
    LET ws == sheets["Title"]
        rows == get_all_records(ws)
        doi == Strip(OrEmpty(Get(title_row, "doi", None)))
        Matches(r) == doi # <<>> /\ Lower(Strip(Get(r, "DOI", <<>>))) = Lower(doi)
        hit == FirstIndex(rows, Matches)
        existing_ids == [i \in 1..Len(rows) |-> Get(rows[i], "ID Title", <<>>)]
        nid == sheet_next_id(existing_ids, <<"T">>)
    IN  IF hit # 0
        THEN [ws |-> ws, ret |-> Get(rows[hit], "ID Title", None)]
        ELSE [ws |-> append_dicts(ws, IF withStatus THEN AppTitleHeaders ELSE TitleHeaders,
                                  NewTitleDict(nid, title_row, withStatus)),
              ret |-> nid]

\* the title rows create_or_get_title_id is called with
SheetTitleArgs ==
    { ("title" :> <<"t">>) @@ ("doi" :> <<"d">>),
      ("title" :> <<"t">>) @@ ("doi" :> <<" ", "D", " ">>),
      ("title" :> <<"t">>) @@ ("doi" :> <<"e">>),
      ("title" :> <<"t">>) @@ ("doi" :> <<" ">>),
      ("title" :> <<"t">>) }

\* a row of a Title worksheet with the ten columns of TitleHeaders
SheetTitleRow(tid, title, doi) ==
    <<tid, title, <<>>, <<>>, doi, <<>>, <<>>, <<>>, <<>>, <<>>>>

\* the Title worksheets a run starts from: blank; header only; rows written
\* by earlier syncs and edited by hand since (a row removed, a DOI retyped,
\* an ID that is no number); a worksheet of an older layout without DOI
InitialTitleSheets ==
    { Worksheet(<<>>, <<>>),
      Worksheet(TitleHeaders, <<>>),
      Worksheet(TitleHeaders, <<SheetTitleRow(<<"T", "0", "0", "2">>, <<"t">>, <<"D", " ">>),
                                SheetTitleRow(<<"T", "x">>, <<"t">>, <<>>)>>),
      Worksheet(<<"ID Title", "Title">>, << <<<<"T", "0", "0", "1">>, <<"t">>>> >>) }

CallCreateOrGetTitleId(title_row, withStatus) ==
    /\ pc = "idle" /\ ncalls < MaxSheetCalls
    /\ LET r == create_or_get_title_id(title_row, withStatus)
       IN  /\ sheets' = [sheets EXCEPT !["Title"] = r.ws]
           /\ call' = Call("create_or_get_title_id", Get(title_row, "title", <<>>),
                           Get(title_row, "doi", None), <<>>, 0, r.ret)
    /\ ncalls' = ncalls + 1
    /\ UNCHANGED <<dbvars, syncvars, preview, curation, writers, first_pass>>

(***************************************************************************)
(* The persisted store: RCAAPDatabase.write_authors                       *)
(***************************************************************************)
AuthorsHeaders == <<"ID Author", "Author Name", "ORCID", "Affiliation">>

\* a header row that stays in the sheet as a row below the new header: its
\* cells, each holding a column name
HeaderAsRow(header) == [j \in 1..Len(header) |-> <<header[j]>>]

\* the row write_authors appends for the author dict r
AuthorCells(r) ==
    << Get(r, "ID Author", <<>>),
       Or(Get(r, "Author Name", None), Or(Get(r, "name_normalized", None),
                                          Or(Get(r, "name", None), <<>>))),
       Get(r, "ORCID", <<>>),
       Get(r, "Affiliation", <<>>) >>

\* write_authors leaving the header of the sheet as it finds it
write_authors_keep_header(ws, rows, delete_fails) ==
    IF rows = <<>> THEN ws
    ELSE Worksheet(IF ws.header = <<>> /\ ws.rows = <<>> THEN AuthorsHeaders ELSE ws.header,
                   ws.rows \o [k \in 1..Len(rows) |-> AuthorCells(rows[k])])

\* write_authors(rows) on the Authors worksheet ws; delete_fails: whether
\* ws.delete_rows(1) raises (the exception is swallowed)
write_authors(ws, rows, delete_fails) ==
    LET blank == ws.header = <<>> /\ ws.rows = <<>>
        kept == IF ~blank /\ ws.header # AuthorsHeaders /\ delete_fails
                THEN <<HeaderAsRow(ws.header)>> \o ws.rows
                ELSE ws.rows
    IN  IF rows = <<>> THEN ws
        ELSE Worksheet(AuthorsHeaders,
                       kept \o [k \in 1..Len(rows) |-> AuthorCells(rows[k])])

\* the author dicts write_authors is called with: a row of the parser, rows
\* with the sheet's own field names and further fields
AuthorDicts ==
    { ("name" :> <<"a">>) @@ ("name_normalized" :> <<"n">>) @@ ("key" :> <<"k">>)
         @@ ("orcid" :> <<"x">>),
      ("Author Name" :> <<"b">>) @@ ("Affiliation" :> <<"u">>) @@ ("extra" :> <<"z">>),
      ("ID Author" :> Id("A", 1)) @@ ("Author Name" :> <<>>) @@ ("name" :> <<"c">>)
         @@ ("ORCID" :> <<"o">>) }

\* the Authors worksheets a run starts from: blank, with the right header,
\* with a legacy header
InitialAuthorsSheets ==
    { Worksheet(<<>>, <<>>),
      Worksheet(AuthorsHeaders, <<>>),
      Worksheet(AuthorsHeaders, << <<Id("A", 1), <<"c">>, <<>>, <<>>>> >>),
      Worksheet(<<"ID", "Name", "key", "name_normalized">>,
                << <<<<"1">>, <<"a">>, <<"k">>, <<"n">>>> >>) }

WriteAuthors(rows, delete_fails) ==
    /\ pc = "idle" /\ ncalls < MaxAuthorWrites
    /\ sheets' = [sheets EXCEPT !["Authors"] = write_authors(sheets["Authors"], rows,
                                                             delete_fails)]
    /\ call' = Call("write_authors", <<>>, rows, <<>>, 0, <<>>)
    /\ ncalls' = ncalls + 1
    /\ UNCHANGED <<dbvars, syncvars, preview, curation, writers, first_pass>>

(***************************************************************************)
(* The curation layer: validate_entry, enrich_entry, _build_display_entry  *)
(***************************************************************************)
\* what requests.get and response.json() did in fetch_from_openalex: nothing
\* (no request made), an exception, a status other than 200, a body with no
\* results, a body whose first result is `work`
NoLookup == [kind |-> "none", work |-> <<>>]
Lookup(kind, work) == [kind |-> kind, work |-> work]

NoCuration == [op |-> "none", entry |-> <<>>, after |-> <<>>, lookup |-> NoLookup,
               result |-> <<>>]

RCAAP_REQUIRED_FIELDS == <<"title", "authors", "year", "language">>

(***************************************************************************)
(* The BibTeX mapper: entries_to_titles, entries_to_authors               *)
(***************************************************************************)
\* s.find(sub) + 1: where sub first occurs in s, 0 when it does not
Find(s, sub) ==
    LET hits == {i \in 1..(Len(s) - Len(sub) + 1) : SubSeq(s, i, i + Len(sub) - 1) = sub}
    IN  IF hits = {} THEN 0 ELSE CHOOSE i \in hits : \A j \in hits : i <= j

RECURSIVE SplitOn(_, _)
\* s.split(sep)
SplitOn(s, sep) ==
    LET i == Find(s, sep)
    IN  IF i = 0 THEN <<s>>
        ELSE <<SubSeq(s, 1, i - 1)>> \o SplitOn(SubSeq(s, i + Len(sep), Len(s)), sep)

RECURSIVE Replace(_, _, _)
\* s.replace(old, new), old not empty
Replace(s, old, new) ==
    LET i == Find(s, old)
    IN  IF i = 0 THEN s
        ELSE SubSeq(s, 1, i - 1) \o new \o Replace(SubSeq(s, i + Len(old), Len(s)), old, new)

\* [p.strip() for p in parts if p.strip()]
StrippedNonEmpty(parts) ==
    LET idx == {i \in 1..Len(parts) : Strip(parts[i]) # <<>>}
        Nth(k) == CHOOSE i \in idx : Cardinality({j \in idx : j < i}) = k - 1
    IN  [k \in 1..Cardinality(idx) |-> Strip(parts[Nth(k)])]

\* _clean_text: braces removed, runs of blanks collapsed, trimmed
clean_text(s) ==
    IF ~Truthy(s) THEN <<>>
    ELSE Join(Split(Replace(Replace(Strip(s), <<"{">>, <<>>), <<"}">>, <<>>)), <<" ">>)

\* whether \d{4}-\d{4}-\d{4}-\d{3}[\dXx] matches s at index i
OrcidAt(s, i) ==
    /\ i + 18 <= Len(s)
    /\ \A j \in 0..18 :
          IF j \in {4, 9, 14} THEN s[i + j] = "-"
          ELSE IF j = 18 THEN IsDigitChar(s[i + j]) \/ s[i + j] \in {"X", "x"}
          ELSE IsDigitChar(s[i + j])

\* _extract_orcid (the search for the URI form finds nothing the first
\* search has not found)
extract_orcid(s) ==
    LET hits == {i \in 1..Len(s) : OrcidAt(s, i)}
        first == CHOOSE i \in hits : \A j \in hits : i <= j
    IN  IF ~Truthy(s) \/ hits = {} THEN <<>> ELSE SubSeq(s, first, first + 18)

OrcidOrg == <<"o", "r", "c", "i", "d", ".", "o", "r", "g", "/">>
HttpsOrcidOrg == <<"h", "t", "t", "p", "s", ":", "/", "/">> \o OrcidOrg

\* _normalize_author_name
normalize_author_name(name) ==
    IF ~Truthy(name) THEN <<>>
    ELSE LET stripped == Strip(name)
             orcid == extract_orcid(stripped)
             shown == IF orcid # <<>>
                      THEN Replace(Replace(Replace(Replace(stripped, orcid, <<>>),
                                                   HttpsOrcidOrg, <<>>),
                                           OrcidOrg, <<>>),
                                   <<"(", ")">>, <<>>)
                      ELSE stripped
             parts == StrippedNonEmpty(SplitOn(shown, <<",">>))
         IN  IF Find(shown, <<",">>) # 0 /\ Len(parts) >= 2
             THEN Strip(Join(Tail(parts), <<" ">>) \o <<" ">> \o parts[1])
             ELSE shown

\* _split_name: (given, family); parts[-1] raises IndexError on a name of
\* blanks only
split_name(name) ==
    LET parts == Split(Strip(name))
    IN  IF ~Truthy(name) THEN [raises |-> FALSE, given |-> <<>>, family |-> <<>>]
        ELSE IF parts = <<>> THEN [raises |-> TRUE, given |-> <<>>, family |-> <<>>]
        ELSE IF Len(parts) = 1 THEN [raises |-> FALSE, given |-> parts[1], family |-> <<>>]
        ELSE [raises |-> FALSE,
              given |-> Join(SubSeq(parts, 1, Len(parts) - 1), <<" ">>),
              family |-> parts[Len(parts)]]

\* e.get("ID") or e.get("id") or e.get("key")
entry_key(e) == Or(Get(e, "ID", None), Or(Get(e, "id", None), Get(e, "key", None)))

\* the separator of the BibTeX author field
AndSep == <<" ", "a", "n", "d", " ">>

\* [a.strip() for a in authors_field.split(" and ") if a.strip()]
author_segments(e) ==
    IF ~Truthy(Get(e, "author", <<>>)) THEN <<>>
    ELSE StrippedNonEmpty(SplitOn(e["author"], AndSep))

\* the rows entries_to_authors appends for the entry e
entry_authors(e) ==
    [idx \in 1..Len(author_segments(e)) |->
        LET a == author_segments(e)[idx]
            name_norm == normalize_author_name(a)
        IN  ("name" :> Strip(a)) @@ ("name_normalized" :> name_norm)
            @@ ("given_name" :> split_name(name_norm).given)
            @@ ("family_name" :> split_name(name_norm).family)
            @@ ("affiliation" :> Get(e, "affiliation", Get(e, "institution", <<>>)))
            @@ ("key" :> entry_key(e)) @@ ("order" :> IntVal(idx))
            @@ ("orcid" :> extract_orcid(a))]

\* a deduplication that keeps the last row of each tuple of key_fields
dedupe_rows_keep_last(rows, key_fields) ==
    LET KeyOf(r) == [f \in 1..Len(key_fields) |-> Get(r, key_fields[f], None)]
        idx == {i \in 1..Len(rows) :
                   \A j \in (i + 1)..Len(rows) : KeyOf(rows[j]) # KeyOf(rows[i])}
        Nth(k) == CHOOSE i \in idx : Cardinality({j \in idx : j < i}) = k - 1
    IN  [k \in 1..Cardinality(idx) |-> rows[Nth(k)]]

\* _dedupe_rows: the first row of each tuple of key_fields
dedupe_rows(rows, key_fields) ==
    LET KeyOf(r) == [f \in 1..Len(key_fields) |-> Get(r, key_fields[f], None)]
        idx == {i \in 1..Len(rows) : \A j \in 1..(i - 1) : KeyOf(rows[j]) # KeyOf(rows[i])}
        Nth(k) == CHOOSE i \in idx : Cardinality({j \in idx : j < i}) = k - 1
    IN  [k \in 1..Cardinality(idx) |-> rows[Nth(k)]]

RECURSIVE Concat(_)
Concat(lists) == IF lists = <<>> THEN <<>> ELSE Head(lists) \o Concat(Tail(lists))

\* entries_to_authors: the rows, or the exception of _split_name
entries_to_authors(entries) ==
    [raises |-> \E i \in 1..Len(entries) :
                    \E idx \in 1..Len(author_segments(entries[i])) :
                        split_name(normalize_author_name(
                            author_segments(entries[i])[idx])).raises,
     rows |-> dedupe_rows(Concat([i \in 1..Len(entries) |-> entry_authors(entries[i])]),
                          <<"name_normalized", "key", "orcid">>)]

\* entries_to_titles
entries_to_titles(entries) ==
    [i \in 1..Len(entries) |->
        LET e == entries[i]
        IN  ("key" :> entry_key(e)) @@ ("title" :> clean_text(Get(e, "title", <<>>)))
            @@ ("year" :> Get(e, "year", <<>>))
            @@ ("journal" :> clean_text(Get(e, "journal", Get(e, "booktitle", <<>>))))
            @@ ("doi" :> Get(e, "doi", <<>>)) @@ ("url" :> Get(e, "url", <<>>))
            @@ ("abstract" :> clean_text(Get(e, "abstract", <<>>)))
            @@ ("type" :> Get(e, "ENTRYTYPE", Get(e, "type", <<>>)))
            @@ ("pages" :> Replace(Get(e, "pages", <<>>), <<"-", "-">>, <<"-">>))
            @@ ("volume" :> Get(e, "volume", <<>>)) @@ ("number" :> Get(e, "number", <<>>))
            @@ ("publisher" :> Get(e, "publisher", <<>>))
            @@ ("keywords" :> Get(e, "keywords", <<>>))
            @@ ("language" :> Get(e, "language", <<>>))]

Entry(id, title, author) == ("ID" :> id) @@ ("title" :> title) @@ ("author" :> author)

\* the entries of a .bib file: authors repeated, braced, written "family,
\* given" with a family name of two words, separated by a doubled " and ";
\* an entry with no author field; a second entry under the citation key of
\* the first; two entries with no citation key
BibEntries ==
    { Entry(<<"k">>, <<"{", "t", "}">>, <<"a">> \o AndSep \o <<"a">> \o AndSep \o <<"b">>)
         @@ ("journal" :> <<"j">>) @@ ("publisher" :> <<"p">>),
      Entry(<<"m">>, <<"u">>, <<"{", "a", "}", ",", " ", "b">> \o AndSep \o <<"c">>),
      Entry(<<"n">>, <<"v">>, <<"v", " ", "w", ",", " ", "x">>) @@ ("pages" :> <<"1", "-", "-", "2">>),
      Entry(<<"q">>, <<"w">>, <<"a">> \o AndSep \o <<"b", ",", "c", ",", " ", "d">> \o AndSep
                              \o AndSep \o <<"e">>),
      ("id" :> <<"o">>) @@ ("title" :> <<"t", " ", " ", "t">>) @@ ("booktitle" :> <<"j">>),
      Entry(<<"k">>, <<"x">>, <<"c">>),
      ("title" :> <<"y">>) @@ ("author" :> <<"d">>),
      ("title" :> <<"z">>) @@ ("author" :> <<"e">>) }

\* titles = entries_to_titles(entries); authors = entries_to_authors(entries);
\* sync_entries(db, titles, authors) on a new store: up to its first title
ParseEntries(entries) ==
    /\ pc = "idle" /\ titles = <<>> /\ call.op = "none"
    /\ ~entries_to_authors(entries).raises
    /\ batch' = [titles |-> entries_to_titles(entries),
                 authors |-> entries_to_authors(entries).rows]
    /\ call' = Call("entries_to_authors", <<>>, entries, <<>>, 0, <<>>)
    /\ IF entries = <<>>
       THEN pc' = "idle" /\ loc' = NoLocals
       ELSE pc' = "publisher" /\ loc' = [NoLocals EXCEPT !.i = 1]
    /\ UNCHANGED <<dbvars, ncalls, appvars>>

\* a dict with no key, and the dict holding value under key unless the value
\* is Absent
EmptyDict == [k \in {} |-> <<>>]
Absent == <<"absent">>
Field(key, value) == IF value = Absent THEN EmptyDict ELSE (key :> value)

\* d[key] = value
Put(d, key, value) == (key :> value) @@ d

\* validate_entry counting a required field as missing only when the entry
\* has no such key
validate_entry_absent_only(entry) ==
    LET idx == {i \in 1..Len(RCAAP_REQUIRED_FIELDS) :
                    RCAAP_REQUIRED_FIELDS[i] \notin DOMAIN entry}
        Nth(k) == CHOOSE i \in idx : Cardinality({j \in idx : j < i}) = k - 1
        missing == [k \in 1..Cardinality(idx) |-> RCAAP_REQUIRED_FIELDS[Nth(k)]]
    IN  [is_valid |-> Len(missing) = 0, missing |-> missing, entry |-> entry]

\* validate_entry(entry): (is_valid, missing), and the entry after the call
validate_entry(entry) ==
    LET idx == {i \in 1..Len(RCAAP_REQUIRED_FIELDS) :
                    ~Truthy(Get(entry, RCAAP_REQUIRED_FIELDS[i], None))}
        Nth(k) == CHOOSE i \in idx : Cardinality({j \in idx : j < i}) = k - 1
        missing == [k \in 1..Cardinality(idx) |-> RCAAP_REQUIRED_FIELDS[Nth(k)]]
    IN  [is_valid |-> Len(missing) = 0, missing |-> missing, entry |-> entry]

\* fetch_from_openalex(doi): the dict it returns; found is FALSE for None
fetch_from_openalex(doi, lookup) ==
    IF Truthy(doi) /\ lookup.kind = "found"
    THEN [found |-> TRUE,
          data |-> ("abstract" :> Get(lookup.work, "abstract", <<>>))
                   @@ ("language" :> Get(lookup.work, "language", <<"e", "n">>))
                   @@ ("is_oa" :> Get(lookup.work, "is_oa", FALSE))
                   @@ ("venue_type" :> Get(lookup.work, "type", <<>>))]
    ELSE [found |-> FALSE, data |-> EmptyDict]

\* enrich_entry taking abstract and language from OpenAlex whenever it has them
enrich_entry_overwrite(entry, lookup) ==
    LET doi == Or(Get(entry, "doi", None), Get(entry, "DOI", None))
        openalex_data == fetch_from_openalex(doi, lookup)
        e1 == IF Truthy(openalex_data.data["abstract"])
              THEN Put(entry, "abstract", openalex_data.data["abstract"]) ELSE entry
        e2 == IF Truthy(openalex_data.data["language"])
              THEN Put(e1, "language", openalex_data.data["language"]) ELSE e1
    IN  [result |-> IF Truthy(doi) /\ openalex_data.found
                    THEN Put(Put(e2, "is_oa", openalex_data.data["is_oa"]),
                             "venue_type", openalex_data.data["venue_type"])
                    ELSE entry,
         entry |-> entry]

\* enrich_entry(entry): the dict it returns, and the entry after the call
enrich_entry(entry, lookup) ==
    LET doi == Or(Get(entry, "doi", None), Get(entry, "DOI", None))
        openalex_data == fetch_from_openalex(doi, lookup)
        e1 == IF ~Truthy(Get(entry, "abstract", None))
                 /\ Truthy(openalex_data.data["abstract"])
              THEN Put(entry, "abstract", openalex_data.data["abstract"]) ELSE entry
        e2 == IF ~Truthy(Get(e1, "language", None))
                 /\ Truthy(openalex_data.data["language"])
              THEN Put(e1, "language", openalex_data.data["language"]) ELSE e1
    IN  [result |-> IF Truthy(doi) /\ openalex_data.found
                    THEN Put(Put(e2, "is_oa", openalex_data.data["is_oa"]),
                             "venue_type", openalex_data.data["venue_type"])
                    ELSE entry,
         entry |-> entry]

\* _format_author_name_safe
format_author_name_safe(name) ==
    LET stripped == Strip(OrEmpty(name))
        parts == StrippedNonEmpty(SplitOn(stripped, <<",">>))
        tokens == Split(stripped)
        comma == Find(stripped, <<",">>) # 0
        family == IF comma THEN (IF parts # <<>> THEN parts[1] ELSE <<>>)
                  ELSE tokens[Len(tokens)]
        given == IF comma THEN (IF Len(parts) > 1 THEN parts[2] ELSE <<>>)
                 ELSE Join(SubSeq(tokens, 1, Len(tokens) - 1), <<" ">>)
        initial == IF given # <<>> THEN <<" ", given[1], ".">> ELSE <<>>
    IN  IF stripped = <<>> THEN <<>> ELSE Strip(family \o <<",">> \o initial)

UnknownAuthor == <<"U", "n", "k", "n", "o", "w", "n", " ", "A", "u", "t", "h", "o", "r">>

\* _format_authors_safe
format_authors_safe(raw_authors) ==
    LET parts == StrippedNonEmpty(SplitOn(raw_authors, AndSep))
        idx == {i \in 1..Len(parts) : format_author_name_safe(parts[i]) # <<>>}
        Nth(k) == CHOOSE i \in idx : Cardinality({j \in idx : j < i}) = k - 1
        formatted == [k \in 1..Cardinality(idx) |-> format_author_name_safe(parts[Nth(k)])]
    IN  IF ~Truthy(raw_authors) THEN UnknownAuthor
        ELSE IF Lower(Strip(raw_authors)) = Lower(UnknownAuthor) THEN UnknownAuthor
        ELSE IF formatted # <<>> THEN Join(formatted, <<";", " ">>)
        ELSE UnknownAuthor

Untitled == <<"U", "n", "t", "i", "t", "l", "e", "d">>
NotAvailable == <<"N", "/", "A">>
NoAbstract == <<"N", "o", " ", "a", "b", "s", "t", "r", "a", "c", "t", " ", "i", "n", " ",
                "B", "i", "b", "T", "e", "X">>

\* _build_display_entry
build_display_entry(entry) ==
    ("display_title" :> Or(Get(entry, "title", Untitled), Untitled))
    @@ ("display_authors" :> format_authors_safe(Get(entry, "author", UnknownAuthor)))
    @@ ("display_venue" :> Or(Get(entry, "journal", Get(entry, "booktitle", NotAvailable)),
                              NotAvailable))
    @@ ("display_year" :> Or(Get(entry, "year", <<>>), <<>>))
    @@ ("display_abstract" :> Or(Get(entry, "abstract", NoAbstract), NoAbstract))

\* the entries validate_entry is called with: each required field absent,
\* None, '' or filled
ValidatedEntries ==
    { Field("title", t) @@ Field("authors", a) @@ Field("year", y) @@ Field("language", l)
         @@ ("doi" :> <<"d">>) :
        t \in {Absent, None, <<>>, <<"t">>}, a \in {Absent, None, <<>>, <<"a">>},
        y \in {Absent, None, <<>>, <<"9">>}, l \in {Absent, None, <<>>, <<"e", "n">>} }

\* the entries enrich_entry is called with
EnrichedEntries ==
    { Field("doi", d) @@ Field("DOI", dd) @@ Field("abstract", a) @@ Field("language", l)
         @@ ("title" :> <<"t">>) :
        d \in {Absent, <<>>, <<"d">>}, dd \in {Absent, <<"D">>},
        a \in {Absent, None, <<>>, <<"a">>}, l \in {Absent, <<>>, <<"p", "t">>} }

\* what the OpenAlex request may do
Lookups ==
    { Lookup("error", EmptyDict), Lookup("status", EmptyDict), Lookup("empty", EmptyDict) }
    \cup { Lookup("found", Field("abstract", a) @@ Field("language", l)
                           @@ (IF o THEN ("is_oa" :> TRUE) ELSE EmptyDict)
                           @@ Field("type", ty)) :
             a \in {Absent, <<>>, <<"x">>}, l \in {Absent, None, <<"e", "s">>},
             o \in BOOLEAN, ty \in {Absent, <<"j">>} }

\* the raw entries _build_display_entry is called with
DisplayedEntries ==
    { Field("title", t) @@ Field("author", a) @@ Field("journal", j) @@ Field("booktitle", b)
         @@ Field("year", y) @@ Field("abstract", ab) :
        t \in {Absent, None, <<>>, <<"t">>},
        a \in {Absent, None, <<" ">>, <<"a", " ", "b">> \o AndSep \o <<"c", ",", " ", "d">>},
        j \in {Absent, None, <<>>, <<"j">>}, b \in {Absent, <<"b">>},
        y \in {Absent, <<"9">>}, ab \in {Absent, <<>>, <<"s">>} }

ValidateEntry(entry) ==
    /\ pc = "idle" /\ curation.op = "none"
    /\ curation' = [op |-> "validate_entry", entry |-> entry,
                    after |-> validate_entry(entry).entry, lookup |-> NoLookup,
                    result |-> [is_valid |-> validate_entry(entry).is_valid,
                                missing |-> validate_entry(entry).missing]]
    /\ UNCHANGED <<dbvars, call, ncalls, syncvars, sheets, preview, writers, first_pass>>

EnrichEntry(entry, lookup) ==
    /\ pc = "idle" /\ curation.op = "none"
    /\ curation' = [op |-> "enrich_entry", entry |-> entry,
                    after |-> enrich_entry(entry, lookup).entry,
                    lookup |-> IF Truthy(Or(Get(entry, "doi", None), Get(entry, "DOI", None)))
                               THEN lookup ELSE NoLookup,
                    result |-> enrich_entry(entry, lookup).result]
    /\ UNCHANGED <<dbvars, call, ncalls, syncvars, sheets, preview, writers, first_pass>>

BuildDisplayEntry(entry) ==
    /\ pc = "idle" /\ curation.op = "none"
    /\ curation' = [op |-> "build_display_entry", entry |-> entry, after |-> entry,
                    lookup |-> NoLookup, result |-> build_display_entry(entry)]
    /\ UNCHANGED <<dbvars, call, ncalls, syncvars, sheets, preview, writers, first_pass>>

(***************************************************************************)
(* The persisted store: sync_entries on an RCAAPDatabase                   *)
(***************************************************************************)
\* _ensure_sheet_and_header(title, headers) on worksheet ws; delete_fails:
\* whether ws.delete_rows(1) raises (the exception is swallowed)
ensure_sheet_and_header(ws, headers, delete_fails) ==
    IF ws.header = <<>> /\ ws.rows = <<>> THEN Worksheet(headers, <<>>)
    ELSE IF ws.header = headers THEN ws
    ELSE IF delete_fails THEN Worksheet(headers, <<HeaderAsRow(ws.header)>> \o ws.rows)
    ELSE Worksheet(headers, ws.rows)

PublisherHeaders == <<"ID Publisher", "Publisher Name">>
VenueHeaders == <<"ID Venue", "Venue Name", "ID Publisher">>
AuthorTitleHeaders == <<"ID Author", "ID Title", "Order">>

\* get_or_create_publisher(name) of the persisted branch: the Publisher
\* worksheet afterwards and the ID returned
sheet_get_or_create_publisher(name) ==
    LET nm == Strip(OrEmpty(name))
        ws == sheets["Publisher"]
        rows == get_all_records(ws)
        Matches(r) == Strip(Get(r, "Publisher Name", <<>>)) = nm
        hit == FirstIndex(rows, Matches)
        existing_ids == [i \in 1..Len(rows) |-> Get(rows[i], "ID Publisher", <<>>)]
        nid == sheet_next_id(existing_ids, <<"P">>)
    IN  IF hit # 0
        THEN [ws |-> ws, ret |-> Get(rows[hit], "ID Publisher", None)]
        ELSE [ws |-> append_dicts(ws, PublisherHeaders,
                                  ("ID Publisher" :> nid) @@ ("Publisher Name" :> nm)),
              ret |-> nid]

\* get_or_create_venue(name, id_publisher) of the persisted branch: on a hit
\* the new ID Publisher goes to the dict read from the sheet, not to the sheet
sheet_get_or_create_venue(name, id_publisher) ==
    LET nm == Strip(OrEmpty(name))
        ws == sheets["Venue"]
        rows == get_all_records(ws)
        Matches(r) == Strip(Get(r, "Venue Name", <<>>)) = nm
        hit == FirstIndex(rows, Matches)
        existing_ids == [i \in 1..Len(rows) |-> Get(rows[i], "ID Venue", <<>>)]
        nid == sheet_next_id(existing_ids, <<"V">>)
    IN  IF hit # 0
        THEN [ws |-> ws, ret |-> Get(rows[hit], "ID Venue", None)]
        ELSE [ws |-> append_dicts(ws, VenueHeaders,
                                  ("ID Venue" :> nid) @@ ("Venue Name" :> nm)
                                  @@ ("ID Publisher" :> id_publisher)),
              ret |-> nid]

\* sorted(auths_for, key=lambda x: _parse_order_sheet(a.get('order'))): the
\* key reads the variable a of sync_entries, not its argument x, and a is
\* assigned by nothing but the for statement that iterates over this list; the
\* first call of the key raises NameError
sheet_sorted_authors(auths_for) ==
    IF auths_for = <<>> THEN [raises |-> FALSE, sorted |-> <<>>]
    ELSE [raises |-> TRUE, sorted |-> <<>>]

\* the end of one iteration of "for t in titles" of the persisted branch
NextSheetTitle(i) ==
    IF i < Len(batch.titles)
    THEN /\ pc' = "sheet_publisher"
         /\ loc' = [NoLocals EXCEPT !.i = i + 1]
    ELSE /\ pc' = "idle"
         /\ loc' = [loc EXCEPT !.pending = <<>>]

\* sync_entries(db, titles, authors) on an RCAAPDatabase: the headers ensured,
\* up to the first title
SheetSyncBegin(ts, as, delete_fails) ==
    /\ pc = "idle" /\ call.op = "none"
    /\ batch' = [titles |-> ts, authors |-> as]
    /\ sheets' = [title \in DOMAIN sheets |->
                    ensure_sheet_and_header(
                        sheets[title],
                        CASE title = "Publisher" -> PublisherHeaders
                          [] title = "Venue" -> VenueHeaders
                          [] title = "Title" -> TitleHeaders
                          [] title = "Authors" -> AuthorsHeaders
                          [] title = "Author-Title" -> AuthorTitleHeaders,
                        delete_fails)]
    /\ call' = Call("sync_entries", <<>>, <<>>, <<>>, 0, <<>>)
    /\ IF ts = <<>>
       THEN pc' = "idle" /\ loc' = NoLocals
       ELSE pc' = "sheet_publisher" /\ loc' = [NoLocals EXCEPT !.i = 1]
    /\ UNCHANGED <<dbvars, ncalls, preview, curation, writers, first_pass>>

\* id_pub = get_or_create_publisher(pub_name) if pub_name else ''
SheetSyncPublisher ==
    /\ pc = "sheet_publisher"
    /\ LET pub_name == Get(batch.titles[loc.i], "publisher", <<>>)
           r == sheet_get_or_create_publisher(pub_name)
       IN  IF Truthy(pub_name)
           THEN /\ sheets' = [sheets EXCEPT !["Publisher"] = r.ws]
                /\ loc' = [loc EXCEPT !.id_pub = r.ret]
           ELSE /\ loc' = [loc EXCEPT !.id_pub = <<>>]
                /\ UNCHANGED sheets
    /\ pc' = "sheet_venue"
    /\ UNCHANGED <<dbvars, call, ncalls, batch, preview, curation, writers, first_pass>>

\* id_venue = get_or_create_venue(venue_name, id_pub) if venue_name else ''
SheetSyncVenue ==
    /\ pc = "sheet_venue"
    /\ LET venue_name == Get(batch.titles[loc.i], "journal", <<>>)
           r == sheet_get_or_create_venue(venue_name, loc.id_pub)
       IN  IF Truthy(venue_name)
           THEN /\ sheets' = [sheets EXCEPT !["Venue"] = r.ws]
                /\ loc' = [loc EXCEPT !.id_venue = r.ret]
           ELSE /\ loc' = [loc EXCEPT !.id_venue = <<>>]
                /\ UNCHANGED sheets
    /\ pc' = "sheet_title"
    /\ UNCHANGED <<dbvars, call, ncalls, batch, preview, curation, writers, first_pass>>

\* id_title = create_or_get_title_id(trow); auths_for = [...]; the for
\* statement over sorted(auths_for, ...), whose body is reached by no run
SheetSyncTitle ==
    /\ pc = "sheet_title"
    /\ LET t == batch.titles[loc.i]
           r == create_or_get_title_id(Put(t, "id_venue", loc.id_venue), FALSE)
           SameKey(a) == Get(a, "key", None) = Get(t, "key", None)
           visit == sheet_sorted_authors(Filter(batch.authors, SameKey))
       IN  /\ sheets' = [sheets EXCEPT !["Title"] = r.ws]
           /\ IF visit.raises
              THEN /\ pc' = "idle"
                   /\ loc' = [loc EXCEPT !.id_title = r.ret]
                   /\ call' = [call EXCEPT !.raised = TRUE]
              ELSE /\ NextSheetTitle(loc.i)
                   /\ UNCHANGED call
    /\ UNCHANGED <<dbvars, ncalls, batch, preview, curation, writers, first_pass>>

(***************************************************************************)
(* Specifications                                                          *)
(***************************************************************************)
\* neither pass has asked for anything
NoWriters ==
    [w \in {1, 2} |-> [pc |-> "idle", name |-> <<>>, rows |-> <<>>,
                       appended |-> FALSE, ret |-> <<>>, done |-> 0]]

\* sync_entries has not been called a second time
NoFirstPass == [again |-> FALSE, publishers |-> <<>>, venues |-> <<>>, authors |-> <<>>]

vars == <<publishers, venues, titles, authors, author_titles, counters,
          call, ncalls, pc, batch, loc, sheets, preview, curation, writers, first_pass>>

\* InMemoryRelationalDB.__init__, no sync_entries pass under way
Init ==
    /\ publishers = <<>> /\ venues = <<>> /\ titles = <<>>
    /\ authors = <<>> /\ author_titles = <<>>
    /\ counters = [prefix \in {"P", "V", "T", "A"} |-> 0]
    /\ call = NoCall /\ ncalls = 0
    /\ pc = "idle" /\ batch = [titles |-> <<>>, authors |-> <<>>] /\ loc = NoLocals
    /\ sheets = BlankSheets
    /\ preview = NoPreview
    /\ curation = NoCuration
    /\ writers = NoWriters
    /\ first_pass = NoFirstPass

\* a client calling the store's methods in any order
Next ==
    \/ \E name \in PublisherNames : CallGetOrCreatePublisher(name)
    \/ \E name \in VenueNames, id_publisher \in PublisherIdArgs :
          CallGetOrCreateVenue(name, id_publisher)
    \/ \E a \in TitleArgs : CallCreateTitle(<<"t">>, a.id_venue, a.doi)
    \/ \E name \in AuthorNames, d \in AuthorDetails :
          CallGetOrCreateAuthor(name, d.orcid, d.affiliation)
    \/ \E id_author \in AuthorIdArgs, id_title \in TitleIdArgs, order \in OrderArgs :
          CallAddAuthorTitle(id_author, id_title, order)
    \/ CallExportRcaapRows

Spec == Init /\ [][Next]_vars

\* sync_entries passes on a fresh InMemoryRelationalDB, one after the other
NextSync ==
    \/ \E ts \in ListsUpTo(SyncTitleRows, MaxBatch), as \in ListsUpTo(SyncAuthorRows, MaxBatch) :
          SyncBegin(ts, as)
    \/ SyncPublisher
    \/ SyncVenue
    \/ SyncTitle
    \/ SyncAuthor

SpecSync == Init /\ [][NextSync]_vars

\* a sync_entries pass that creates the store's first Title row, T001, and
\* add_author_title calls by a client on T001 before and after it
NextLink ==
    \/ \E ts \in ListsUpTo(SyncTitleRows, 1), as \in ListsUpTo(SyncAuthorRows, MaxBatch) :
          titles = <<>> /\ SyncBegin(ts, as)
    \/ SyncPublisher
    \/ SyncVenue
    \/ SyncTitle
    \/ SyncAuthor
    \/ \E id_author \in AuthorIdArgs, id_title \in TitleIdArgs, order \in OrderArgs :
          ncalls < MaxLinkCalls /\ CallAddAuthorTitle(id_author, id_title, order)

SpecLink == Init /\ [][NextLink]_vars

\* create_or_get_title_id calls on a Title worksheet as a run may find it
InitSheet ==
    /\ publishers = <<>> /\ venues = <<>> /\ titles = <<>>
    /\ authors = <<>> /\ author_titles = <<>>
    /\ counters = [prefix \in {"P", "V", "T", "A"} |-> 0]
    /\ call = NoCall /\ ncalls = 0
    /\ pc = "idle" /\ batch = [titles |-> <<>>, authors |-> <<>>] /\ loc = NoLocals
    /\ \E ws \in InitialTitleSheets : sheets = [BlankSheets EXCEPT !["Title"] = ws]
    /\ preview = NoPreview
    /\ curation = NoCuration
    /\ writers = NoWriters
    /\ first_pass = NoFirstPass

NextSheet ==
    \/ \E title_row \in SheetTitleArgs : CallCreateOrGetTitleId(title_row, FALSE)
    \/ \E title_row \in SheetTitleArgs : CallCreateOrGetTitleId(title_row, TRUE)

SpecSheet == InitSheet /\ [][NextSheet]_vars

\* a run that syncs one batch of one title into a fresh store (no preview is
\* asked for), or one that assembles a preview row
InitOrder ==
    /\ publishers = <<>> /\ venues = <<>> /\ titles = <<>>
    /\ authors = <<>> /\ author_titles = <<>>
    /\ counters = [prefix \in {"P", "V", "T", "A"} |-> 0]
    /\ call = NoCall /\ ncalls = 0
    /\ pc = "idle" /\ batch = [titles |-> <<>>, authors |-> <<>>] /\ loc = NoLocals
    /\ sheets = BlankSheets
    /\ preview \in PreviewCalls \cup {NoPreview}
    /\ curation = NoCuration
    /\ writers = NoWriters
    /\ first_pass = NoFirstPass

NextOrder ==
    \/ \E ts \in ListsUpTo(SyncTitleRows, 1), as \in ListsUpTo(SyncAuthorRows, MaxBatch) :
          preview = NoPreview /\ titles = <<>> /\ SyncBegin(ts, as)
    \/ SyncPublisher
    \/ SyncVenue
    \/ SyncTitle
    \/ SyncAuthor
    \/ AssemblePreview

SpecOrder == InitOrder /\ [][NextOrder]_vars

\* write_authors calls on an Authors worksheet as a run may find it
InitAuthors ==
    /\ publishers = <<>> /\ venues = <<>> /\ titles = <<>>
    /\ authors = <<>> /\ author_titles = <<>>
    /\ counters = [prefix \in {"P", "V", "T", "A"} |-> 0]
    /\ call = NoCall /\ ncalls = 0
    /\ pc = "idle" /\ batch = [titles |-> <<>>, authors |-> <<>>] /\ loc = NoLocals
    /\ \E ws \in InitialAuthorsSheets : sheets = [BlankSheets EXCEPT !["Authors"] = ws]
    /\ preview = NoPreview
    /\ curation = NoCuration
    /\ writers = NoWriters
    /\ first_pass = NoFirstPass

NextAuthors ==
    \E rows \in ListsUpTo(AuthorDicts, MaxAuthorRows), delete_fails \in BOOLEAN :
        WriteAuthors(rows, delete_fails)

SpecAuthors == InitAuthors /\ [][NextAuthors]_vars

\* a .bib file's entries mapped and synchronised to a new in-memory store
NextParse ==
    \/ \E entries \in ListsUpTo(BibEntries, MaxEntries) : ParseEntries(entries)
    \/ SyncPublisher
    \/ SyncVenue
    \/ SyncTitle
    \/ SyncAuthor

SpecParse == Init /\ [][NextParse]_vars

\* one call of the curation layer on an entry of an upload
NextCuration ==
    \/ \E entry \in ValidatedEntries : ValidateEntry(entry)
    \/ \E entry \in EnrichedEntries, lookup \in Lookups : EnrichEntry(entry, lookup)
    \/ \E entry \in DisplayedEntries : BuildDisplayEntry(entry)

SpecCuration == Init /\ [][NextCuration]_vars

\* one sync_entries pass on a persisted store whose worksheets are blank
NextSheetSync ==
    \/ \E ts \in ListsUpTo(SyncTitleRows, MaxBatch), as \in ListsUpTo(SyncAuthorRows, MaxBatch),
          delete_fails \in BOOLEAN :
          SheetSyncBegin(ts, as, delete_fails)
    \/ SheetSyncPublisher
    \/ SheetSyncVenue
    \/ SheetSyncTitle

SpecSheetSync == Init /\ [][NextSheetSync]_vars

(***************************************************************************)
(* Claims                                                                  *)
(***************************************************************************)
\* the rows of a table whose name field, trimmed, is the trimmed name
RowsNamed(rows, nameField, name) ==
    {i \in 1..Len(rows) : Strip(rows[i][nameField]) = Strip(OrEmpty(name))}

\* C1: two get_or_create_publisher(name) calls in a row, from any state of the
\* store, return the same ID, and afterwards exactly one Publisher row has
\* that name (names compared trimmed).
C1_PublisherGetOrCreateIdempotent ==
    (/\ call.op = "get_or_create_publisher"
     /\ call.prev.op = "get_or_create_publisher"
     /\ call.prev.name = call.name)
    => /\ call.ret = call.prev.ret
       /\ Cardinality(RowsNamed(publishers, "Publisher Name", call.name)) = 1

\* C1 witness: after other calls, the same padded name was looked up twice in
\* a row and the second call found the row the first one created.
C1_Witness ==
    /\ call.op = "get_or_create_publisher" /\ call.prev.op = "get_or_create_publisher"
    /\ call.name = <<" ", "a">> /\ call.prev.name = call.name
    /\ call.ret = Id("P", 2)
    /\ Len(publishers) = 2 /\ ncalls = 4

\* the numeric suffix of an ID
Suffix(id) == DigitsVal(Tail(id))

\* the n-th ID handed out for a prefix is the prefix followed by the number n
IdsInSequence(rows, idField, prefix) ==
    \A i \in 1..Len(rows) :
        /\ Head(rows[i][idField]) = prefix
        /\ IsDigit(Tail(rows[i][idField]))
        /\ Suffix(rows[i][idField]) = i

\* C2: whatever the interleaving of creations across the four entity types,
\* the IDs of one type are numbered 1, 2, 3, ... in creation order (strictly
\* increasing, step 1, from 1), so no ID is assigned twice.
C2_IdsIncreasePerType ==
    /\ IdsInSequence(publishers, "ID Publisher", "P")
    /\ IdsInSequence(venues, "ID Venue", "V")
    /\ IdsInSequence(titles, "ID Title", "T")
    /\ IdsInSequence(authors, "ID Author", "A")

\* C2 witness: P001, then rows of two other types, then P002.
C2_Witness ==
    /\ call.op = "get_or_create_publisher" /\ call.ret = Id("P", 2)
    /\ call.prev.op = "get_or_create_venue" /\ call.prev.ret = Id("V", 1)
    /\ Len(publishers) = 2 /\ Len(venues) = 1 /\ Len(titles) = 1

\* C3 (as claimed): two Title upserts with the same non-empty DOI, compared
\* case-insensitively, return the same Title ID and leave one Title row with
\* that DOI.
C3_TitleDedupByDoi ==
    /\ \A i, j \in 1..Len(titles) :
          (i # j /\ titles[i]["DOI"] # <<>>)
          => Lower(titles[i]["DOI"]) # Lower(titles[j]["DOI"])
    /\ (/\ call.op = "create_title" /\ call.prev.op = "create_title"
        /\ Truthy(call.y) /\ Truthy(call.prev.y)
        /\ Lower(call.y) = Lower(call.prev.y))
       => call.ret = call.prev.ret

\* C5: a get_or_create_author call (step) keeps every Author row's ID and
\* name, never changes a non-empty ORCID or Affiliation, changes an empty one
\* only to the non-empty value supplied for that author's name, and on a name
\* that exists returns that row's ID and adds no row.
C5_Step ==
    /\ Len(authors') >= Len(authors)
    /\ \A i \in 1..Len(authors) :
          LET old == authors[i]
              new == authors'[i]
              forThisRow == /\ call'.op = "get_or_create_author"
                            /\ Strip(OrEmpty(call'.name)) = Strip(old["Author Name"])
          IN  /\ new["ID Author"] = old["ID Author"]
              /\ new["Author Name"] = old["Author Name"]
              /\ old["ORCID"] # <<>> => new["ORCID"] = old["ORCID"]
              /\ old["Affiliation"] # <<>> => new["Affiliation"] = old["Affiliation"]
              /\ new["ORCID"] # old["ORCID"]
                 => forThisRow /\ Truthy(call'.x) /\ new["ORCID"] = call'.x
              /\ new["Affiliation"] # old["Affiliation"]
                 => forThisRow /\ Truthy(call'.y) /\ new["Affiliation"] = call'.y
              /\ (forThisRow /\ ncalls' = ncalls + 1)
                 => Len(authors') = Len(authors) /\ call'.ret = old["ID Author"]

C5_AuthorBackfillOnly == [][C5_Step]_vars

\* C5 witness: "a" was created with ORCID x and affiliation u, then looked up
\* again with ORCID y and affiliation w; the row still holds x and u.
C5_Witness ==
    /\ call.op = "get_or_create_author" /\ call.prev.op = "get_or_create_author"
    /\ Strip(call.name) = <<"a">> /\ Strip(call.prev.name) = <<"a">>
    /\ call.prev.x = <<"x">> /\ call.x = <<"y">> /\ call.y = <<"w">>
    /\ call.ret = call.prev.ret
    /\ Len(authors) = 1
    /\ authors[1]["ORCID"] = <<"x">> /\ authors[1]["Affiliation"] = <<"u">>

\* C7: get_or_create_venue(name, p) on a name that exists returns that row's
\* ID, adds no row and leaves the row's ID Publisher equal to p; on a miss it
\* appends exactly one row, with publisher p and an ID no row had.
C7_Step ==
    (call'.op = "get_or_create_venue" /\ ncalls' = ncalls + 1)
    => LET hits == RowsNamed(venues, "Venue Name", call'.name)
       IN  IF hits # {}
           THEN /\ Len(venues') = Len(venues)
                /\ \E i \in hits :
                      /\ call'.ret = venues[i]["ID Venue"]
                      /\ venues'[i] = [venues[i] EXCEPT !["ID Publisher"] = call'.x]
                      /\ \A j \in 1..Len(venues) : j # i => venues'[j] = venues[j]
           ELSE /\ Len(venues') = Len(venues) + 1
                /\ \A j \in 1..Len(venues) : venues'[j] = venues[j]
                /\ venues'[Len(venues')]["ID Publisher"] = call'.x
                /\ venues'[Len(venues')]["ID Venue"] = call'.ret
                /\ Strip(venues'[Len(venues')]["Venue Name"]) = Strip(OrEmpty(call'.name))
                /\ \A j \in 1..Len(venues) : venues[j]["ID Venue"] # call'.ret

C7_VenueLastWriteWins == [][C7_Step]_vars

\* C7 witness: venue "v" was created with publisher P001 and looked up again
\* with publisher P002; one row, now linked to P002.
C7_Witness ==
    /\ call.op = "get_or_create_venue" /\ call.prev.op = "get_or_create_venue"
    /\ call.ret = call.prev.ret
    /\ call.prev.x = Id("P", 1) /\ call.x = Id("P", 2)
    /\ Len(venues) = 1 /\ venues[1]["ID Publisher"] = Id("P", 2)

\* the Author-Title rows of one (ID Author, ID Title) pair
LinksOf(rows, id_author, id_title) ==
    {i \in 1..Len(rows) : rows[i]["ID Author"] = id_author /\ rows[i]["ID Title"] = id_title}

\* C6: there is at most one Author-Title row per (ID Author, ID Title) pair;
\* a step that calls add_author_title(a, t, order), from a client or from
\* sync_entries, leaves the one row of (a, t) with Order = str(order) and the
\* rows of every other pair as they were, and no other step changes the
\* table: each row holds the order of the most recent call for its pair.
C6_Step ==
    LET linkStep == call'.op = "add_author_title" /\ (ncalls' = ncalls + 1 \/ pc = "author")
        mine == LinksOf(author_titles', call'.x, call'.y)
    IN  /\ \A i, j \in 1..Len(author_titles') :
              (/\ author_titles'[i]["ID Author"] = author_titles'[j]["ID Author"]
               /\ author_titles'[i]["ID Title"] = author_titles'[j]["ID Title"]) => i = j
        /\ IF linkStep
           THEN /\ Cardinality(mine) = 1
                /\ \A i \in mine : author_titles'[i]["Order"] = Str(call'.order)
                /\ \A i \in 1..Len(author_titles) :
                      i \notin LinksOf(author_titles, call'.x, call'.y)
                      => author_titles'[i] = author_titles[i]
                /\ Len(author_titles') =
                      Len(author_titles)
                      + (IF LinksOf(author_titles, call'.x, call'.y) = {} THEN 1 ELSE 0)
           ELSE author_titles' = author_titles

C6_OneLinkPerPairLatestOrder == [][C6_Step]_vars

\* C6 witness: a pair linked by sync_entries with order 1 was linked again by
\* a client with order 2; one row for the pair, Order '2'.
C6_Witness ==
    /\ call.op = "add_author_title" /\ ncalls >= 1 /\ pc = "idle"
    /\ call.prev.op = "add_author_title"
    /\ call.prev.x = call.x /\ call.prev.y = call.y
    /\ call.prev.order = 1 /\ call.order = 2
    /\ Len(batch.titles) = 1
    /\ Cardinality(LinksOf(author_titles, call.x, call.y)) = 1
    /\ \A i \in LinksOf(author_titles, call.x, call.y) : author_titles[i]["Order"] = <<"2">>

\* the data rows of the Title worksheet whose DOI equals doi, ignoring case
\* and surrounding whitespace
DoiMatches(ws, doi) ==
    {i \in 1..Len(ws.rows) :
        Lower(Strip(Get(get_all_records(ws)[i], "DOI", <<>>))) = Lower(Strip(doi))}

TitleIdsOf(ws) ==
    {Get(get_all_records(ws)[i], "ID Title", <<>>) : i \in 1..Len(ws.rows)}

C4_Step ==
    (call'.op = "create_or_get_title_id" /\ <<call, sheets>>' # <<call, sheets>>) =>
        LET ws == sheets["Title"]
            after == sheets'["Title"]
            doi == OrEmpty(call'.x)
            found == IF Strip(doi) = <<>> THEN {} ELSE DoiMatches(ws, doi)
        IN  IF found # {}
            THEN /\ call'.ret \in {get_all_records(ws)[i]["ID Title"] : i \in found}
                 /\ after = ws
            ELSE /\ Len(after.rows) = Len(ws.rows) + 1
                 /\ \A i \in 1..Len(ws.rows) : after.rows[i] = ws.rows[i]
                 /\ get_all_records(after)[Len(after.rows)]["ID Title"] = call'.ret
                 /\ call'.ret \notin TitleIdsOf(ws)

\* C4: on the persisted store, create_or_get_title_id returns the ID of an
\* existing Title row and appends nothing when the incoming DOI is non-empty
\* and equals that row's DOI ignoring case and surrounding whitespace; in
\* every other case (no match, or an empty DOI even with the same title text)
\* it appends exactly one Title row and returns a new ID, distinct from every
\* ID in the worksheet before.
C4_PersistedTitleDedupByDoi == [][C4_Step]_vars

\* a call that found the row an earlier call created, under a DOI differing
\* from the stored one in case and surrounding whitespace, and a call with an
\* empty DOI that added a row next to one with the same title text
C4_Witness ==
    /\ call.op = "create_or_get_title_id" /\ call.prev.op = "create_or_get_title_id"
    /\ call.x = <<" ", "D", " ">> /\ call.prev.x = <<"d">>
    /\ call.ret = call.prev.ret
    /\ Len(sheets["Title"].rows) = 2
    /\ get_all_records(sheets["Title"])[1]["Title"] = <<"t">>
    /\ get_all_records(sheets["Title"])[1]["DOI"] = <<>>
    /\ get_all_records(sheets["Title"])[2]["DOI"] = <<"d">>

\* the batch of the sync_entries pass that has just ended was one Title row
\* with publisher, journal and DOI and Author rows of its key with pairwise
\* distinct names and the orders 1..n, and the store was fresh before it
C8_Batch ==
    /\ pc = "idle" /\ Len(batch.titles) = 1 /\ Len(titles) = 1
    /\ LET t == batch.titles[1]
           as == batch.authors
           n == Len(as)
       IN  /\ Truthy(Get(t, "publisher", None))
           /\ Truthy(Get(t, "journal", None))
           /\ Truthy(Get(t, "doi", None))
           /\ \A i \in 1..n :
                 /\ Get(as[i], "key", None) = Get(t, "key", None)
                 /\ "name" \in DOMAIN as[i]
                 /\ LET o == Get(as[i], "order", NoneVal)
                    IN  o.kind = "int" \/ (o.kind = "str" /\ ParseInt(o.s).ok)
           /\ \A i, j \in 1..n : i # j => as[i]["name"] # as[j]["name"]
           /\ {parse_order_local(Get(as[i], "order", NoneVal)) : i \in 1..n} = 1..n

\* the names of the batch's authors, by order 1..n
C8_NamesInOrder ==
    LET as == batch.authors
    IN  [k \in 1..Len(as) |->
            as[CHOOSE i \in 1..Len(as) :
                  parse_order_local(Get(as[i], "order", NoneVal)) = k]["name"]]

\* C8: for a batch with one Title row that has publisher, journal and DOI and
\* n Author rows of its key with pairwise distinct names and orders 1..n,
\* sync_entries into a fresh store leaves 1 Publisher row, 1 Venue row linked
\* to it, 1 Title row linked to the venue, n Author rows and n Author-Title
\* rows with Orders '1'..'n'; export_rcaap_rows then returns one row, its
\* author field the n names joined by '; ' in order and its publisher field
\* the publisher's name.
C8_FullEntrySync ==
    C8_Batch =>
        LET t == batch.titles[1]
            n == Len(batch.authors)
        IN  /\ Len(publishers) = 1
            /\ publishers[1]["Publisher Name"] = Strip(t["publisher"])
            /\ Len(venues) = 1
            /\ venues[1]["ID Publisher"] = publishers[1]["ID Publisher"]
            /\ titles[1]["ID Venue"] = venues[1]["ID Venue"]
            /\ titles[1]["DOI"] = t["doi"]
            /\ Len(authors) = n /\ Len(author_titles) = n
            /\ \A k \in 1..n :
                  \E a \in 1..n, l \in 1..n :
                     /\ authors[a]["Author Name"] = C8_NamesInOrder[k]
                     /\ author_titles[l]["ID Author"] = authors[a]["ID Author"]
                     /\ author_titles[l]["ID Title"] = titles[1]["ID Title"]
                     /\ author_titles[l]["Order"] = Str(k)
            /\ ~export_raises
            /\ Len(export_rcaap_rows) = 1
            /\ export_rcaap_rows[1]["dc.contributor.author"]
                  = Join(C8_NamesInOrder, <<";", " ">>)
            /\ export_rcaap_rows[1]["dc.publisher"] = publishers[1]["Publisher Name"]

\* two authors, given to sync_entries second one first: exported as 'a; b'
C8_Witness ==
    /\ C8_Batch
    /\ Len(batch.authors) = 2
    /\ batch.authors[1]["order"] = IntVal(2)
    /\ Len(author_titles) = 2
    /\ export_rcaap_rows[1]["dc.contributor.author"] = <<"a", ";", " ", "b">>

\* every reference in the store is to a row that exists
ReferencesResolve(ps, vs, ts, as, ats) ==
    /\ \A t \in 1..Len(ts) :
          ts[t]["ID Venue"] # <<>> =>
             \E v \in 1..Len(vs) : vs[v]["ID Venue"] = ts[t]["ID Venue"]
    /\ \A v \in 1..Len(vs) :
          vs[v]["ID Publisher"] # <<>> =>
             \E q \in 1..Len(ps) : ps[q]["ID Publisher"] = vs[v]["ID Publisher"]
    /\ \A l \in 1..Len(ats) :
          /\ \E a \in 1..Len(as) : as[a]["ID Author"] = ats[l]["ID Author"]
          /\ \E t \in 1..Len(ts) : ts[t]["ID Title"] = ats[l]["ID Title"]

C9_Step ==
    /\ ReferencesResolve(publishers', venues', titles', authors', author_titles')
    /\ \A t \in (Len(titles) + 1)..Len(titles') :
          titles'[t]["ID Venue"] # <<>> =>
             \E v \in 1..Len(venues) : venues[v]["ID Venue"] = titles'[t]["ID Venue"]

\* C9: in every state reached from a fresh store by sync_entries passes, at
\* their ends and in between, every Title's non-empty ID Venue is the ID of a
\* Venue row, every Venue's non-empty ID Publisher the ID of a Publisher row,
\* every Author-Title row's ID Author and ID Title the IDs of an Author row
\* and a Title row; and the Venue row a new Title row refers to is in the
\* store before the Title row is appended.
C9_ReferentialIntegrity ==
    /\ ReferencesResolve(publishers, venues, titles, authors, author_titles)
    /\ [][C9_Step]_vars

\* after a second pass: two Title rows with a venue, the venue with a
\* publisher, and authors linked
C9_Witness ==
    /\ pc = "idle" /\ Len(titles) = 2 /\ Len(batch.titles) = 1
    /\ titles[1]["ID Venue"] # <<>> /\ titles[2]["ID Venue"] # <<>>
    /\ \E v \in 1..Len(venues) : venues[v]["ID Publisher"] # <<>>
    /\ Len(author_titles) >= 2

\* an order value that parses neither as an integer nor as a float, and one
\* that parses to a positive integer
Malformed(o) == o.kind = "str" /\ ~ParseInt(o.s).ok /\ ~ParseFloatTrunc(o.s).ok
Positive(o) == \/ o.kind = "int" /\ o.n > 0
               \/ o.kind = "str" /\ ParseInt(o.s).ok /\ ParseInt(o.s).n > 0

\* s.split(';'), each part stripped
ListedNames(s) ==
    LET cuts == {0, Len(s) + 1} \cup {i \in 1..Len(s) : s[i] = ";"}
        Nth(k) == CHOOSE i \in cuts : Cardinality({j \in cuts : j < i}) = k - 1
    IN  [k \in 1..(Cardinality(cuts) - 1) |-> Strip(SubSeq(s, Nth(k) + 1, Nth(k + 1) - 1))]

ListedBefore(line, x, y) ==
    \E i, j \in 1..Len(ListedNames(line)) :
        i < j /\ ListedNames(line)[i] = x /\ ListedNames(line)[j] = y

\* in sync_entries, the authors of the title at hand still to be processed
\* stand in the order they are processed in
C10_Sync ==
    pc = "author" =>
        \A i, j \in 1..Len(loc.pending) :
            (/\ Malformed(Get(loc.pending[i], "order", NoneVal))
             /\ Positive(Get(loc.pending[j], "order", NoneVal))) => i < j

\* the preview's authors_line for a title whose authors come from the store
C10_PreviewDb ==
    (/\ preview.done /\ preview.db.present
     /\ ~preview.db.ws["Author-Title"].raises /\ ~preview.db.ws["Authors"].raises) =>
        LET links == preview.db.ws["Author-Title"].records
            names == preview.db.ws["Authors"].records
            Shown(l) == {format_author_name_from_parts(name_parts(names[a]["Author Name"]).given,
                                                       name_parts(names[a]["Author Name"]).family) :
                           a \in {b \in 1..Len(names) : names[b]["ID Author"] = l["ID Author"]}}
        IN  \A i, j \in 1..Len(links) :
               (/\ links[i]["ID Title"] = Get(preview.title_row, "ID Title", None)
                /\ links[j]["ID Title"] = Get(preview.title_row, "ID Title", None)
                /\ Malformed(links[i]["Order"]) /\ Positive(links[j]["Order"])) =>
                  \A x \in Shown(links[i]), y \in Shown(links[j]) :
                      ListedBefore(preview.result["authors_line"], x, y)

\* the preview's authors_line for a title whose authors come from parsed_authors
C10_PreviewParsed ==
    (preview.done /\ ~preview.db.present /\ preview.parsed_authors.present) =>
        LET as == preview.parsed_authors.rows
            Shown(a) == IF "name" \in DOMAIN a
                        THEN format_author_name_from_parts(name_parts(a["name"]).given,
                                                           name_parts(a["name"]).family)
                        ELSE format_author_name_from_parts(a["given_name"], a["family_name"])
        IN  \A i, j \in 1..Len(as) :
               (/\ as[i]["key"] = Get(preview.title_row, "key", None)
                /\ as[j]["key"] = Get(preview.title_row, "key", None)
                /\ Malformed(as[i]["order"]) /\ Positive(as[j]["order"])) =>
                  ListedBefore(preview.result["authors_line"], Shown(as[i]), Shown(as[j]))

\* C10: in sync_entries on the in-memory store and in _assemble_preview_row,
\* an order value that parses neither as an integer nor as a float is
\* treated as 0, so that its author is processed (respectively listed)
\* before any author of the same title whose order parses to a positive
\* integer, and no exception is raised.
C10_MalformedOrderIsZero == C10_Sync /\ C10_PreviewDb /\ C10_PreviewParsed

\* the orderings of the elements of the set S
Orderings(S) ==
    {f \in [1..Cardinality(S) -> S] : \A i, j \in 1..Cardinality(S) : i # j => f[i] # f[j]}

\* the Author-Title rows of the title with ID tid
LinkRowsOf(tid) == {l \in 1..Len(author_titles) : author_titles[l]["ID Title"] = tid}

\* the stored name of the author with ID aid
StoredName(aid) ==
    authors[CHOOSE a \in 1..Len(authors) : authors[a]["ID Author"] = aid]["Author Name"]

\* the name of the publisher reached through the venue of Title row t, or ''
PublisherThroughVenue(t) ==
    LET vs == {v \in 1..Len(venues) : venues[v]["ID Venue"] = t["ID Venue"]}
        ps == {q \in 1..Len(publishers) :
                  \E v \in vs : publishers[q]["ID Publisher"] = venues[v]["ID Publisher"]}
    IN  IF t["ID Venue"] = <<>> \/ vs = {} \/ ps = {} THEN <<>>
        ELSE publishers[CHOOSE q \in ps : TRUE]["Publisher Name"]

\* C11: export_rcaap_rows returns exactly one row per Title row, in Title
\* insertion order, each with exactly the five keys dc.title,
\* dc.contributor.author, dc.date.issued, dc.publisher, dc.identifier.doi;
\* the author field is the stored names of the title's linked authors joined
\* by '; ' in ascending integer Order, and the publisher field the name of
\* the publisher reached through the title's Venue, or '' when the title has
\* no venue, the venue does not exist or its publisher does not exist.
C11_ExportOneRowPerTitle ==
    call.op = "export_rcaap_rows" =>
        /\ ~call.raised
        /\ Len(call.rows) = Len(titles)
        /\ \A t \in 1..Len(titles) :
              /\ DOMAIN call.rows[t] = {"dc.title", "dc.contributor.author", "dc.date.issued",
                                        "dc.publisher", "dc.identifier.doi"}
              /\ call.rows[t]["dc.title"] = titles[t]["Title"]
              /\ call.rows[t]["dc.date.issued"] = titles[t]["Year"]
              /\ call.rows[t]["dc.identifier.doi"] = titles[t]["DOI"]
              /\ call.rows[t]["dc.publisher"] = PublisherThroughVenue(titles[t])
              /\ \E o \in Orderings(LinkRowsOf(titles[t]["ID Title"])) :
                    /\ \A i, j \in DOMAIN o :
                          i < j => ParseInt(author_titles[o[i]]["Order"]).n
                                      <= ParseInt(author_titles[o[j]]["Order"]).n
                    /\ call.rows[t]["dc.contributor.author"]
                          = Join([k \in DOMAIN o |-> StoredName(author_titles[o[k]]["ID Author"])],
                                 <<";", " ">>)

C12_Step ==
    (call'.op = "write_authors" /\ call'.x # <<>> /\ <<call, sheets>>' # <<call, sheets>>) =>
        LET ws == sheets["Authors"]
            after == sheets'["Authors"]
            rows == call'.x
            n == Len(rows)
            m == Len(after.rows) - n
            FirstNonEmpty(r) ==
                IF Get(r, "Author Name", <<>>) \notin {<<>>, None} THEN r["Author Name"]
                ELSE IF Get(r, "name_normalized", <<>>) \notin {<<>>, None}
                     THEN r["name_normalized"]
                ELSE IF Get(r, "name", <<>>) \notin {<<>>, None} THEN r["name"]
                ELSE <<>>
        IN  /\ after.header = <<"ID Author", "Author Name", "ORCID", "Affiliation">>
            /\ m >= 0
            /\ \/ SubSeq(after.rows, 1, m) = ws.rows
               \/ /\ ws.header \notin {<<>>, after.header}
                  /\ SubSeq(after.rows, 1, m) = <<HeaderAsRow(ws.header)>> \o ws.rows
            /\ \A k \in 1..n :
                  /\ Len(after.rows[m + k]) = 4
                  /\ after.rows[m + k][1] = Get(rows[k], "ID Author", <<>>)
                  /\ after.rows[m + k][2] = FirstNonEmpty(rows[k])
                  /\ after.rows[m + k][3] = Get(rows[k], "ORCID", <<>>)
                  /\ after.rows[m + k][4] = Get(rows[k], "Affiliation", <<>>)

\* C12: after write_authors(rows) with a non-empty list, whatever the Authors
\* sheet held before (nothing, the right header, a legacy header), the first
\* row of the sheet is ['ID Author', 'Author Name', 'ORCID', 'Affiliation']
\* and one row of four cells has been appended per input row: its 'ID
\* Author', the first non-empty of 'Author Name', 'name_normalized', 'name',
\* its 'ORCID' and its 'Affiliation', each '' when missing; every other field
\* is dropped.  The rows the sheet held stay (a legacy header that could not
\* be deleted stays as a row under the new header).
C12_WriteAuthorsFourColumns == [][C12_Step]_vars

\* two rows written to a sheet with a legacy header: the header replaced,
\* the parser's row stored under its name_normalized, 'orcid' and 'key' dropped
C12_Witness ==
    /\ call.op = "write_authors" /\ Len(call.x) = 2
    /\ "name_normalized" \in DOMAIN call.x[1] /\ "extra" \in DOMAIN call.x[2]
    /\ sheets["Authors"].header = AuthorsHeaders
    /\ sheets["Authors"].rows =
          << <<<<"1">>, <<"a">>, <<"k">>, <<"n">>>>,
             <<<<>>, <<"n">>, <<>>, <<>>>>,
             <<<<>>, <<"b">>, <<>>, <<"u">>>> >>

\* the rows of `rows` that carry the source key `key`, in their order
RowsOfKey(rows, key) ==
    LET idx == {i \in 1..Len(rows) : rows[i]["key"] = key}
        Nth(k) == CHOOSE i \in idx : Cardinality({j \in idx : j < i}) = k - 1
    IN  [k \in 1..Cardinality(idx) |-> rows[Nth(k)]]

\* C13: the rows entries_to_authors returns for one source key carry the
\* order values 1, 2, ..., k in encounter order, k being the number of rows
\* returned for that key; and once sync_entries has returned, the Orders of
\* each title's Author-Title rows are exactly 1..k.
C13_OrdersAreOneToK ==
    /\ call.op = "entries_to_authors" =>
          \A i \in 1..Len(batch.authors) :
              LET same == RowsOfKey(batch.authors, batch.authors[i]["key"])
              IN  \A k \in 1..Len(same) : same[k]["order"] = IntVal(k)
    /\ (pc = "idle" /\ batch.titles # <<>>) =>
          \A t \in 1..Len(titles) :
              LET links == LinkRowsOf(titles[t]["ID Title"])
              IN  /\ \A l \in links : ParseInt(author_titles[l]["Order"]).ok
                  /\ {ParseInt(author_titles[l]["Order"]).n : l \in links}
                        = 1..Cardinality(links)

HasBrace(s) == \E i \in 1..Len(s) : s[i] \in {"{", "}"}

\* C14: the author field of every entry is split on ' and ' only, never on
\* commas, giving one author per non-empty segment in encounter order; and
\* no name entries_to_authors produces, nor any Author Name sync_entries
\* stores, contains '{' or '}'.
C14_SplitOnAndWithoutBraces ==
    /\ call.op = "entries_to_authors" =>
          /\ [i \in 1..Len(batch.authors) |-> batch.authors[i]["name"]]
                = Concat([e \in 1..Len(call.x) |-> author_segments(call.x[e])])
          /\ \A i \in 1..Len(batch.authors) :
                /\ ~HasBrace(batch.authors[i]["name"])
                /\ ~HasBrace(batch.authors[i]["name_normalized"])
    /\ batch.titles # <<>> =>
          \A a \in 1..Len(authors) : ~HasBrace(authors[a]["Author Name"])

\* C16: for every name that contains a comma, the family_name
\* entries_to_authors computes is the whole first comma-delimited segment
\* and the given_name the remaining segments joined by single spaces, also
\* when the family segment has several words.
C16_CommaNameParts ==
    call.op = "entries_to_authors" =>
        \A i \in 1..Len(batch.authors) :
            LET row == batch.authors[i]
                segments == StrippedNonEmpty(SplitOn(row["name"], <<",">>))
            IN  (Find(row["name"], <<",">>) # 0 /\ segments # <<>>) =>
                    /\ row["family_name"] = segments[1]
                    /\ row["given_name"] = Join(Tail(segments), <<" ">>)

\* C15: _assemble_preview_row returns 'Venue Name' = 'Unknown Venue' whenever
\* the title row's ID Venue matches no Venue row and the title row carries no
\* journal or Venue name; and it returns its result when reading the Venue,
\* Authors or Author-Title tables raises: the venue then comes from the title
\* row or the placeholder, the authors from parsed_authors or are ''.
C15_UnknownVenueWithoutRaising ==
    preview.done =>
        LET row == preview.title_row
            db == preview.db
            venue_rows == db.ws["Venue"].records
            matched == /\ db.present /\ ~db.ws["Venue"].raises
                       /\ \E i \in 1..Len(venue_rows) :
                             Get(venue_rows[i], "ID Venue", None) = Get(row, "ID Venue", None)
            named == Truthy(Get(row, "journal", None)) \/ Truthy(Get(row, "Venue", None))
            result == preview.result
        IN  /\ DOMAIN result = {"Title", "Year", "DOI", "URL", "Venue Name", "authors_line",
                                "ID Title", "ID Venue"}
            /\ (~matched /\ ~named) => result["Venue Name"] = UnknownVenue
            /\ (db.present /\ db.ws["Venue"].raises) =>
                  result["Venue Name"] = IF Truthy(Get(row, "journal", None)) THEN row["journal"]
                                         ELSE IF Truthy(Get(row, "Venue", None)) THEN row["Venue"]
                                         ELSE UnknownVenue
            /\ ( /\ db.present /\ ~preview.parsed_authors.present
                 /\ db.ws["Author-Title"].raises \/ db.ws["Authors"].raises ) =>
                  result["authors_line"] = <<>>

\* a title row naming venue V9, with no journal, previewed on a store whose
\* Venue table holds V001 only and whose Author-Title table cannot be read
C15_Witness ==
    /\ preview.done
    /\ preview.db.present
    /\ preview.db.ws["Venue"] = Records(<<VenueRow(Id("V", 1), <<"j">>, <<>>)>>)
    /\ preview.db.ws["Author-Title"] = Unreadable
    /\ Get(preview.title_row, "ID Venue", None) = <<"V", "9">>
    /\ preview.result["Venue Name"] = UnknownVenue
    /\ preview.result["authors_line"] = <<>>

\* C17: validate_entry(entry) returns as missing exactly those of the
\* required fields title, authors, year, language, in that order, whose
\* value in the entry is absent or falsy; is_valid is true exactly when that
\* list is empty; the entry is left unchanged.
C17_ValidateReportsFalsyRequiredFields ==
    curation.op = "validate_entry" =>
        LET required == <<"title", "authors", "year", "language">>
            missing == curation.result.missing
            Falsy(f) == f \notin DOMAIN curation.entry \/ curation.entry[f] \in {None, <<>>}
            Position(f) == CHOOSE i \in 1..4 : required[i] = f
        IN  /\ \A k \in 1..Len(missing) : missing[k] \in {required[i] : i \in 1..4}
            /\ \A i \in 1..4 : Falsy(required[i]) <=> \E k \in 1..Len(missing) :
                                                          missing[k] = required[i]
            /\ \A k \in 1..(Len(missing) - 1) : Position(missing[k]) < Position(missing[k + 1])
            /\ curation.result.is_valid <=> missing = <<>>
            /\ curation.after = curation.entry

\* an entry with an empty title, no authors key and a None language: three
\* fields reported, in the fixed order
C17_Witness ==
    /\ curation.op = "validate_entry"
    /\ "title" \in DOMAIN curation.entry /\ curation.entry["title"] = <<>>
    /\ "authors" \notin DOMAIN curation.entry
    /\ curation.result.missing = <<"title", "authors", "language">>
    /\ ~curation.result.is_valid

\* C18: enrich_entry never replaces a non-empty abstract or language of the
\* entry, never mutates its input, and when the lookup fails (no DOI, network
\* error, non-200 status, no results) returns a mapping equal to the entry.
C18_EnrichFillsOnlyEmptyFields ==
    curation.op = "enrich_entry" =>
        LET entry == curation.entry
            NonEmpty(f) == f \in DOMAIN entry /\ entry[f] \notin {None, <<>>}
            doi == IF NonEmpty("doi") THEN entry["doi"]
                   ELSE IF NonEmpty("DOI") THEN entry["DOI"] ELSE <<>>
        IN  /\ \A f \in {"abstract", "language"} :
                  NonEmpty(f) => curation.result[f] = entry[f]
            /\ curation.after = entry
            /\ (doi = <<>> \/ curation.lookup.kind \in {"none", "error", "status", "empty"}) =>
                  curation.result = entry

\* an entry with a DOI, an abstract and an empty language, enriched from a
\* work that has both: the abstract kept, the language filled
C18_Witness ==
    /\ curation.op = "enrich_entry"
    /\ curation.lookup.kind = "found"
    /\ Get(curation.lookup.work, "abstract", <<>>) = <<"x">>
    /\ Get(curation.entry, "abstract", <<>>) = <<"a">>
    /\ Get(curation.entry, "language", None) = <<>>
    /\ curation.result["abstract"] = <<"a">>
    /\ curation.result["language"] = <<"e", "s">>

\* C19: _build_display_entry returns, for every entry whose field values are
\* strings, None or absent, a dict in which each display field is the entry's
\* value when that value is non-empty and otherwise its fallback: title
\* 'Untitled', authors 'Unknown Author' (the authors being shown formatted),
\* abstract 'No abstract in BibTeX', year '', and venue = journal if
\* non-empty, else booktitle if non-empty, else 'N/A'.
C19_DisplayFallbacks ==
    curation.op = "build_display_entry" =>
        LET entry == curation.entry
            NonEmpty(f) == f \in DOMAIN entry /\ entry[f] \notin {None, <<>>}
            ValueOr(f, fallback) == IF NonEmpty(f) THEN entry[f] ELSE fallback
            shown == curation.result
        IN  /\ DOMAIN shown = {"display_title", "display_authors", "display_venue",
                               "display_year", "display_abstract"}
            /\ shown["display_title"] = ValueOr("title", Untitled)
            /\ shown["display_year"] = ValueOr("year", <<>>)
            /\ shown["display_abstract"] = ValueOr("abstract", NoAbstract)
            /\ shown["display_venue"] = ValueOr("journal", ValueOr("booktitle", NotAvailable))
            /\ ~NonEmpty("author") => shown["display_authors"] = UnknownAuthor
            /\ shown["display_authors"] # <<>>

\* the names the in-memory variant get-or-creates for a batch, in the order
\* it visits them: per title, the authors of its key by ascending parsed order
VisitedNames(ts, as) ==
    Concat([i \in 1..Len(ts) |->
        LET SameKey(a) == Get(a, "key", None) = Get(ts[i], "key", None)
            OrderOf(a) == parse_order_local(Get(a, "order", NoneVal))
            visited == SortedBy(Filter(as, SameKey), OrderOf)
        IN  [k \in 1..Len(visited) |-> Strip(OrEmpty(Get(visited[k], "name", None)))]])

\* seq without the repetitions of its elements
FirstOccurrences(seq) ==
    LET idx == {i \in 1..Len(seq) : \A j \in 1..(i - 1) : seq[j] # seq[i]}
        Nth(k) == CHOOSE i \in idx : Cardinality({j \in idx : j < i}) = k - 1
    IN  [k \in 1..Cardinality(idx) |-> seq[Nth(k)]]

\* C20: on the persisted store sync_entries returns without raising, whatever
\* the order values and also when a title has authors, having get-or-created
\* each title's authors in ascending order of their parsed order, the sequence
\* in which the in-memory variant visits them: the Authors worksheet of a
\* store that was blank lists the batch's authors in that sequence.
C20_PersistedSyncVisitsAuthorsInOrder ==
    (call.op = "sync_entries" /\ pc = "idle") =>
        /\ ~call.raised
        /\ [i \in 1..Len(sheets["Authors"].rows) |-> sheets["Authors"].rows[i][2]]
              = FirstOccurrences(VisitedNames(batch.titles, batch.authors))

\* ---------------------------------------------------------------------------
\* The persisted helpers beside their in-memory counterparts

MaxPatchCalls == 3

\* get_or_create_author(name, orcid, affiliation) of the persisted branch: on
\* a hit ORCID and Affiliation are set on the dict read from the sheet only
sheet_get_or_create_author(name, orcid, affiliation) ==
    LET nm == Strip(OrEmpty(name))
        ws == sheets["Authors"]
        rows == get_all_records(ws)
        Matches(r) == Strip(Get(r, "Author Name", <<>>)) = nm
        hit == FirstIndex(rows, Matches)
        existing_ids == [i \in 1..Len(rows) |-> Get(rows[i], "ID Author", <<>>)]
        nid == sheet_next_id(existing_ids, <<"A">>)
    IN  IF hit # 0
        THEN [ws |-> ws, ret |-> Get(rows[hit], "ID Author", None)]
        ELSE [ws |-> append_dicts(ws, AuthorsHeaders,
                                  ("ID Author" :> nid) @@ ("Author Name" :> nm)
                                  @@ ("ORCID" :> OrEmpty(orcid))
                                  @@ ("Affiliation" :> OrEmpty(affiliation))),
              ret |-> nid]

\* ensure_author_title_link(id_author, id_title, order): on a hit the new
\* Order is set on the dict read from the sheet only
sheet_ensure_author_title_link(id_author, id_title, order) ==
    LET ws == sheets["Author-Title"]
        rows == get_all_records(ws)
        Matches(r) == /\ Get(r, "ID Author", None) = id_author
                      /\ Get(r, "ID Title", None) = id_title
    IN  IF FirstIndex(rows, Matches) # 0 THEN ws
        ELSE append_dicts(ws, AuthorTitleHeaders,
                          ("ID Author" :> id_author) @@ ("ID Title" :> id_title)
                          @@ ("Order" :> Str(order)))

\* one venue upsert made on both stores
BothGetOrCreateVenue(name, id_publisher) ==
    /\ pc = "idle" /\ ncalls < MaxPatchCalls
    /\ LET r == get_or_create_venue(name, id_publisher)
           s == sheet_get_or_create_venue(name, id_publisher)
       IN  /\ venues' = r.venues
           /\ counters' = r.counters
           /\ sheets' = [sheets EXCEPT !["Venue"] = s.ws]
           /\ call' = Call("get_or_create_venue", name, id_publisher, s.ret, 0, r.ret)
    /\ ncalls' = ncalls + 1
    /\ UNCHANGED <<publishers, titles, authors, author_titles, syncvars,
                   preview, curation, writers, first_pass>>

\* one author upsert made on both stores
BothGetOrCreateAuthor(name, orcid, affiliation) ==
    /\ pc = "idle" /\ ncalls < MaxPatchCalls
    /\ LET r == get_or_create_author(name, orcid, affiliation)
           s == sheet_get_or_create_author(name, orcid, affiliation)
       IN  /\ authors' = r.authors
           /\ counters' = r.counters
           /\ sheets' = [sheets EXCEPT !["Authors"] = s.ws]
           /\ call' = Call("get_or_create_author", name, orcid, s.ret, 0, r.ret)
    /\ ncalls' = ncalls + 1
    /\ UNCHANGED <<publishers, venues, titles, author_titles, syncvars,
                   preview, curation, writers, first_pass>>

\* one author-title link made on both stores
BothLinkAuthorTitle(id_author, id_title, order) ==
    /\ pc = "idle" /\ ncalls < MaxPatchCalls
    /\ author_titles' = add_author_title(id_author, id_title, order)
    /\ sheets' = [sheets EXCEPT !["Author-Title"] =
                     sheet_ensure_author_title_link(id_author, id_title, order)]
    /\ call' = Call("add_author_title", <<>>, id_author, id_title, order, <<>>)
    /\ ncalls' = ncalls + 1
    /\ UNCHANGED <<publishers, venues, titles, authors, counters, syncvars,
                   preview, curation, writers, first_pass>>

NextPatch ==
    \/ \E name \in VenueNames, id_publisher \in PublisherIdArgs :
          BothGetOrCreateVenue(name, id_publisher)
    \/ \E name \in AuthorNames, d \in AuthorDetails :
          BothGetOrCreateAuthor(name, d.orcid, d.affiliation)
    \/ \E id_author \in AuthorIdArgs, id_title \in TitleIdArgs, order \in OrderArgs :
          BothLinkAuthorTitle(id_author, id_title, order)

SpecPatch == Init /\ [][NextPatch]_vars

\* C21: the persisted Venue, Authors and Author-Title tables hold, on the next
\* read, the same rows field by field as the in-memory store after the same
\* calls, the patches made on a hit (a venue's publisher, an author's ORCID
\* and Affiliation, a link's Order) included
C21_PersistedPatchesVisible ==
    /\ get_all_records(sheets["Venue"]) = venues
    /\ get_all_records(sheets["Authors"]) = authors
    /\ get_all_records(sheets["Author-Title"]) = author_titles

\* ---------------------------------------------------------------------------
\* One writer asking the persisted store for publishers while the Publisher
\* worksheet is edited by hand between the requests

MaxFreshCalls == 4

\* the IDs of the data rows of a worksheet, read now
IdsOf(ws, column) ==
    LET rows == get_all_records(ws)
    IN  {Get(rows[i], column, <<>>) : i \in 1..Len(rows)}

\* rows typed into the Publisher worksheet by hand
ExternalPublisherRows ==
    {<<Id("P", 3), <<"x">>>>, <<Id("P", 1), <<"y">>>>, <<<<>>, <<"z">>>>,
     <<<<"P", "P", "0", "5">>, <<"w">>>>, <<<<"P", "x">>, <<"u">>>>}

\* get_or_create_publisher(name) of the persisted branch, called by itself
CallSheetGetOrCreatePublisher(name) ==
    /\ pc = "idle" /\ ncalls < MaxFreshCalls
    /\ LET r == sheet_get_or_create_publisher(name)
       IN  /\ sheets' = [sheets EXCEPT !["Publisher"] = r.ws]
           /\ call' = Call("sheet_get_or_create_publisher", name, <<>>, <<>>, 0, r.ret)
    /\ ncalls' = ncalls + 1
    /\ UNCHANGED <<dbvars, syncvars, preview, curation, writers, first_pass>>

\* a row appended to the Publisher worksheet by somebody else
ExternalAddRow(row) ==
    /\ pc = "idle" /\ ncalls < MaxFreshCalls
    /\ sheets' = [sheets EXCEPT !["Publisher"] =
                     Worksheet(PublisherHeaders, Append(@.rows, row))]
    /\ call' = Call("external_add", row[2], row[1], <<>>, 0, <<>>)
    /\ ncalls' = ncalls + 1
    /\ UNCHANGED <<dbvars, syncvars, preview, curation, writers, first_pass>>

\* a row of the Publisher worksheet deleted by somebody else
ExternalRemoveRow(i) ==
    /\ pc = "idle" /\ ncalls < MaxFreshCalls
    /\ i \in 1..Len(sheets["Publisher"].rows)
    /\ sheets' = [sheets EXCEPT !["Publisher"] =
                     Worksheet(@.header, SubSeq(@.rows, 1, i - 1)
                                         \o SubSeq(@.rows, i + 1, Len(@.rows)))]
    /\ call' = Call("external_remove", <<>>, <<>>, <<>>, i, <<>>)
    /\ ncalls' = ncalls + 1
    /\ UNCHANGED <<dbvars, syncvars, preview, curation, writers, first_pass>>

NextFresh ==
    \/ \E name \in PublisherNames : CallSheetGetOrCreatePublisher(name)
    \/ \E row \in ExternalPublisherRows : ExternalAddRow(row)
    \/ \E i \in 1..MaxFreshCalls : ExternalRemoveRow(i)

SpecFresh == Init /\ [][NextFresh]_vars

\* C22: a publisher row appended by the persisted get_or_create_publisher
\* carries an ID that no row of the worksheet had when the request was made,
\* whatever rows were added or removed by hand since the request before
C22_Step ==
    (/\ call'.op = "sheet_get_or_create_publisher"
     /\ ncalls' = ncalls + 1
     /\ Len(sheets'["Publisher"].rows) = Len(sheets["Publisher"].rows) + 1)
    => /\ call'.ret \notin IdsOf(sheets["Publisher"], "ID Publisher")
       /\ call'.ret = sheets'["Publisher"].rows[Len(sheets'["Publisher"].rows)][1]

C22_FreshIdNeverPresent == [][C22_Step]_vars

\* a request that appended a row right after a row had been removed by hand
\* from a worksheet holding other rows
C22_Witness ==
    /\ call.op = "sheet_get_or_create_publisher"
    /\ call.prev.op = "external_remove"
    /\ Len(sheets["Publisher"].rows) >= 2
    /\ sheets["Publisher"].rows[Len(sheets["Publisher"].rows)][1] = call.ret
    /\ call.ret # Id("P", Len(sheets["Publisher"].rows))

\* the rows of the in-memory table whose IDs start with prefix, and the
\* column holding them
TableOf(prefix) ==
    IF prefix = "P" THEN [rows |-> publishers, column |-> "ID Publisher"]
    ELSE IF prefix = "V" THEN [rows |-> venues, column |-> "ID Venue"]
    ELSE IF prefix = "T" THEN [rows |-> titles, column |-> "ID Title"]
    ELSE [rows |-> authors, column |-> "ID Author"]

\* the IDs of a table in row order, and their numeric suffixes
TableIds(prefix) ==
    [i \in 1..Len(TableOf(prefix).rows) |-> TableOf(prefix).rows[i][TableOf(prefix).column]]

Suffixes(prefix) ==
    {DigitsVal(Tail(TableIds(prefix)[i])) : i \in 1..Len(TableIds(prefix))}

\* C23: in every state of the in-memory store the ID its counter would hand
\* out next is the ID the scan of the table's rows (largest suffix + 1) gives,
\* and the counter of a prefix is the number of rows of its table and the
\* largest suffix among them
C23_CounterAgreesWithScan ==
    \A prefix \in {"P", "V", "T", "A"} :
        /\ next_id(prefix).id = sheet_next_id(TableIds(prefix), <<prefix>>)
        /\ counters[prefix] = Len(TableOf(prefix).rows)
        /\ counters[prefix] = MaxOrZero(Suffixes(prefix))

\* a store with several publishers and rows in two other tables
C23_Witness ==
    /\ Len(publishers) >= 2
    /\ authors # <<>>
    /\ titles # <<>>
    /\ call.op = "create_title"

\* ---------------------------------------------------------------------------
\* Two sync passes on one persisted store, nothing locked: each
\* get_or_create_publisher call reads the worksheet, then decides and appends

MaxWriterCalls == 2

\* get_or_create_publisher(name) from the rows it has read to its return, on
\* the worksheet ws as it is by then
get_or_create_publisher_reading_again(rows, ws, name) ==
    LET fresh == get_all_records(ws)
        Matches(r) == Strip(Get(r, "Publisher Name", <<>>)) = name
        hit == FirstIndex(fresh, Matches)
        existing_ids == [i \in 1..Len(fresh) |-> Get(fresh[i], "ID Publisher", <<>>)]
        nid == sheet_next_id(existing_ids, <<"P">>)
    IN  IF hit # 0
        THEN [ws |-> ws, appended |-> FALSE, ret |-> Get(fresh[hit], "ID Publisher", None)]
        ELSE [ws |-> append_dicts(ws, PublisherHeaders,
                                  ("ID Publisher" :> nid) @@ ("Publisher Name" :> name)),
              appended |-> TRUE, ret |-> nid]

get_or_create_publisher_after_read(rows, ws, name) ==
    LET Matches(r) == Strip(Get(r, "Publisher Name", <<>>)) = name
        hit == FirstIndex(rows, Matches)
        existing_ids == [i \in 1..Len(rows) |-> Get(rows[i], "ID Publisher", <<>>)]
        nid == sheet_next_id(existing_ids, <<"P">>)
    IN  IF hit # 0
        THEN [ws |-> ws, appended |-> FALSE, ret |-> Get(rows[hit], "ID Publisher", None)]
        ELSE [ws |-> append_dicts(ws, PublisherHeaders,
                                  ("ID Publisher" :> nid) @@ ("Publisher Name" :> name)),
              appended |-> TRUE, ret |-> nid]

\* pass w enters get_or_create_publisher(name) and reads the worksheet
WriterRead(w, name) ==
    /\ pc = "idle"
    /\ writers[w].pc = "idle" /\ writers[w].done < MaxWriterCalls
    /\ writers' = [writers EXCEPT ![w] =
                      [pc |-> "read", name |-> Strip(OrEmpty(name)),
                       rows |-> get_all_records(sheets["Publisher"]),
                       appended |-> FALSE, ret |-> <<>>, done |-> @.done]]
    /\ UNCHANGED <<dbvars, call, ncalls, syncvars, sheets, preview, curation, first_pass>>

\* pass w looks its name up in the rows it read, appends on a miss and returns
WriterAppend(w) ==
    /\ writers[w].pc = "read"
    /\ LET r == get_or_create_publisher_after_read(writers[w].rows, sheets["Publisher"],
                                                   writers[w].name)
       IN  /\ sheets' = [sheets EXCEPT !["Publisher"] = r.ws]
           /\ writers' = [writers EXCEPT ![w] =
                             [@ EXCEPT !.pc = "idle", !.appended = r.appended,
                                       !.ret = r.ret, !.done = @ + 1]]
           /\ call' = Call("sheet_get_or_create_publisher", writers[w].name,
                           <<>>, <<>>, w, r.ret)
    /\ UNCHANGED <<dbvars, ncalls, syncvars, preview, curation, first_pass>>

NextRace ==
    \/ \E w \in {1, 2}, name \in PublisherNames : WriterRead(w, name)
    \/ \E w \in {1, 2} : WriterAppend(w)

SpecRace == Init /\ [][NextRace]_vars

\* the rows of the Publisher worksheet holding the ID id
RowsWithId(id) ==
    {i \in 1..Len(sheets["Publisher"].rows) : sheets["Publisher"].rows[i][1] = id}

\* the rows of the Publisher worksheet naming the publisher name
RowsWithName(name) ==
    {i \in 1..Len(sheets["Publisher"].rows) : Strip(sheets["Publisher"].rows[i][2]) = name}

\* both passes have returned from calls that appended a row, and they had
\* read the same rows: each read before the other appended
BothReadBeforeEitherAppended ==
    /\ \A w \in {1, 2} : writers[w].pc = "idle" /\ writers[w].appended
    /\ writers[1].rows = writers[2].rows

\* C24: with two sync passes on one persisted store and no lock, whenever
\* both read the Publisher table before either appended, the table ends with
\* two rows carrying the same ID, and with two rows for the same publisher
\* name when both asked for the same name
C24_RaceDuplicatesRows ==
    BothReadBeforeEitherAppended =>
        /\ writers[1].ret = writers[2].ret
        /\ Cardinality(RowsWithId(writers[1].ret)) >= 2
        /\ writers[1].name = writers[2].name
              => Cardinality(RowsWithName(writers[1].name)) >= 2

\* the interleaving has happened: two rows with one ID for one publisher name
C24_Witness ==
    /\ BothReadBeforeEitherAppended
    /\ writers[1].name = writers[2].name
    /\ Cardinality(RowsWithId(writers[1].ret)) >= 2
    /\ Cardinality(RowsWithName(writers[1].name)) >= 2

\* a finished sync_entries pass of two titles into a store that was empty:
\* the first names a publisher and a journal, the second the same journal
\* and no publisher
SameJournalThenNoPublisher ==
    /\ pc = "idle" /\ Len(batch.titles) = 2 /\ Len(titles) = 2
    /\ Truthy(Get(batch.titles[1], "publisher", <<>>))
    /\ Truthy(Get(batch.titles[1], "journal", <<>>))
    /\ Truthy(Get(batch.titles[2], "journal", <<>>))
    /\ Strip(OrEmpty(Get(batch.titles[2], "journal", <<>>)))
          = Strip(OrEmpty(Get(batch.titles[1], "journal", <<>>)))
    /\ ~Truthy(Get(batch.titles[2], "publisher", <<>>))

MaxAppPasses == 2
MaxAppEntries == 2

StatusVerified == <<"V", "e", "r", "i", "f", "i", "e", "d">>
StatusDraft == <<"D", "r", "a", "f", "t", "/", "I", "n", "c", "o", "m", "p", "l", "e", "t", "e">>
UnknownPublisher ==
    <<"U", "n", "k", "n", "o", "w", "n", " ", "P", "u", "b", "l", "i", "s", "h", "e", "r">>

\* RCAAPDatabase._ensure_header(ws, headers): a blank worksheet gets the
\* header, any other is left as it is
ensure_header(ws, headers) ==
    IF ws.header = <<>> /\ ws.rows = <<>> THEN Worksheet(headers, <<>>) ELSE ws

\* (entry.get(key) or '').strip() or default
StrippedOr(entry, key, default) ==
    LET s == Strip(OrEmpty(Get(entry, key, None)))
    IN  IF s = <<>> THEN default ELSE s

\* the status the sync loop derives from validate_entry(entry)
app_status(entry) ==
    IF validate_entry(entry).is_valid THEN StatusVerified ELSE StatusDraft

\* the title_row dict the sync loop builds for an entry
app_title_row(entry, venue_id) ==
    ("title" :> StrippedOr(entry, "title", Untitled))
    @@ ("year" :> StrippedOr(entry, "year", <<"0", "0", "0", "0">>))
    @@ ("id_venue" :> venue_id)
    @@ ("doi" :> StrippedOr(entry, "doi", <<>>))
    @@ ("url" :> StrippedOr(entry, "url", <<>>))
    @@ ("abstract" :> StrippedOr(entry, "abstract", <<>>))
    @@ ("type" :> StrippedOr(entry, "type", <<"a", "r", "t", "i", "c", "l", "e">>))
    @@ ("language" :> StrippedOr(entry, "language", <<"e", "n">>))
    @@ ("keywords" :> StrippedOr(entry, "keywords", <<>>))
    @@ ("status" :> app_status(entry))

\* author_list = [a.strip() for a in authors_text.split(';') if a.strip()]
app_author_list(entry) ==
    LET authors_text == StrippedOr(entry, "authors", <<>>)
    IN  IF authors_text = <<>> THEN <<>>
        ELSE StrippedNonEmpty(SplitOn(authors_text, <<";">>))

\* a curated entry
AppEntry(title, authors_text, year, doi) ==
    Field("title", title) @@ Field("authors", authors_text) @@ Field("year", year)
    @@ Field("doi", doi) @@ ("language" :> <<"e", "n">>) @@ ("journal" :> <<"j">>)

\* the curated entries of a run: complete and incomplete ones, two of them
\* with DOIs that differ in case and blanks only
AppEntries ==
    { AppEntry(<<"t">>, <<"a", ";", " ", "b">>, <<"9">>, <<"d">>),
      AppEntry(<<"t">>, Absent, <<"9">>, <<"D", " ">>),
      AppEntry(<<"u">>, <<"a">>, <<"9">>, Absent),
      AppEntry(<<"u">>, <<"b", ";">>, None, <<"e">>) }

\* the end of one iteration of "for idx, entry in enumerate(curated_entries, 1)"
NextAppEntry(i) ==
    IF i < Len(batch.titles)
    THEN /\ pc' = "app_entry"
         /\ loc' = [NoLocals EXCEPT !.i = i + 1]
    ELSE /\ pc' = "idle"
         /\ loc' = [loc EXCEPT !.pending = <<>>]

\* the Sync button is pressed: the five _ensure_sheet_and_header calls
AppSyncBegin(entries) ==
    /\ pc = "idle" /\ ncalls < MaxAppPasses
    /\ batch' = [titles |-> entries, authors |-> <<>>]
    /\ sheets' = [title \in DOMAIN sheets |->
                     ensure_header(sheets[title],
                         IF title = "Publisher" THEN PublisherHeaders
                         ELSE IF title = "Venue" THEN VenueHeaders
                         ELSE IF title = "Title" THEN AppTitleHeaders
                         ELSE IF title = "Authors" THEN AuthorsHeaders
                         ELSE AuthorTitleHeaders)]
    /\ IF entries = <<>>
       THEN pc' = "idle" /\ loc' = NoLocals
       ELSE pc' = "app_entry" /\ loc' = [NoLocals EXCEPT !.i = 1]
    /\ ncalls' = ncalls + 1
    /\ UNCHANGED <<dbvars, call, preview, curation, writers, first_pass>>

\* one entry up to title_id = create_or_get_title_id(title_row)
AppSyncEntry ==
    /\ pc = "app_entry"
    /\ LET entry == batch.titles[loc.i]
           publisher_name == Get(entry, "publisher", UnknownPublisher)
           venue_name == Or(Get(entry, "journal", <<>>),
                            Or(Get(entry, "booktitle", <<>>), UnknownVenue))
           p == sheet_get_or_create_publisher(publisher_name)
           v == sheet_get_or_create_venue(venue_name, p.ret)
           t == create_or_get_title_id(app_title_row(entry, v.ret), TRUE)
           author_list == app_author_list(entry)
       IN  /\ sheets' = [sheets EXCEPT !["Publisher"] = p.ws, !["Venue"] = v.ws,
                                       !["Title"] = t.ws]
           /\ call' = [Call("app_create_or_get_title_id", StrippedOr(entry, "title", Untitled),
                            p.ret, v.ret, loc.i, t.ret)
                          EXCEPT !.rows = entry]
           /\ IF author_list = <<>>
              THEN NextAppEntry(loc.i)
              ELSE /\ pc' = "app_author"
                   /\ loc' = [loc EXCEPT !.id_pub = p.ret, !.id_venue = v.ret,
                                         !.id_title = t.ret, !.pending = author_list]
    /\ UNCHANGED <<dbvars, ncalls, batch, preview, curation, writers, first_pass>>

\* one iteration of "for order_idx, author_str in enumerate(author_list, 1)"
AppSyncAuthor ==
    /\ pc = "app_author"
    /\ LET order_idx == Len(app_author_list(batch.titles[loc.i])) - Len(loc.pending) + 1
           a == sheet_get_or_create_author(Strip(Head(loc.pending)), <<>>, <<>>)
       IN  /\ sheets' = [sheets EXCEPT
                            !["Authors"] = a.ws,
                            !["Author-Title"] =
                                sheet_ensure_author_title_link(a.ret, loc.id_title, order_idx)]
    /\ IF Len(loc.pending) = 1
       THEN NextAppEntry(loc.i)
       ELSE /\ pc' = "app_author"
            /\ loc' = [loc EXCEPT !.pending = Tail(@)]
    /\ UNCHANGED <<dbvars, call, ncalls, batch, preview, curation, writers, first_pass>>

NextApp ==
    \/ \E entries \in ListsUpTo(AppEntries, MaxAppEntries) : AppSyncBegin(entries)
    \/ AppSyncEntry
    \/ AppSyncAuthor

SpecApp == Init /\ [][NextApp]_vars

\* the Status cells of the Title rows carrying the ID id
StatusOf(id) ==
    LET rows == get_all_records(sheets["Title"])
    IN  {Get(rows[i], "Status", <<>>) : i \in {k \in 1..Len(rows) : rows[k]["ID Title"] = id}}

\* C26: once the app's sync has the title ID of an entry, the Status of the
\* Title row with that ID is 'Verified' if validate_entry(entry) passes and
\* 'Draft/Incomplete' if it does not, whether the row was appended for the
\* entry or found by its DOI
C26_StatusFollowsValidation ==
    call.op = "app_create_or_get_title_id" =>
        StatusOf(call.ret) = {IF validate_entry(call.rows).is_valid
                              THEN StatusVerified ELSE StatusDraft}

\* ---------------------------------------------------------------------------
\* The app's RCAAP export: generate_rcaap_csv

\* the data rows written from the store's worksheets before the relational
\* branch returns or raises. author_map[a_id] is evaluated with a_id bound to
\* an (order, ID Author) pair of sorted(auths, ...), never a key of author_map:
\* the first title with a linked author raises KeyError, the rows written for
\* the titles before it staying in the output
csv_store_rows ==
    LET title_rows == get_all_records(sheets["Title"])
        venue_rows == get_all_records(sheets["Venue"])
        publisher_rows == get_all_records(sheets["Publisher"])
        author_title_rows == get_all_records(sheets["Author-Title"])
        bad_order == \E i \in 1..Len(author_title_rows) :
                        LET o == OrEmpty(Get(author_title_rows[i], "Order", None))
                        IN  o # <<>> /\ ~ParseInt(o).ok
        auths(t) == {i \in 1..Len(author_title_rows) :
                        Get(author_title_rows[i], "ID Title", <<>>) = Get(t, "ID Title", None)}
        pub_name(t) ==
            LET id_venue == Get(t, "ID Venue", <<>>)
                v == DictIndex(venue_rows, "ID Venue", id_venue)
                p == IF v = 0 THEN 0
                     ELSE DictIndex(publisher_rows, "ID Publisher",
                                    Get(venue_rows[v], "ID Publisher", None))
            IN  IF ~Truthy(id_venue) \/ v = 0 \/ p = 0 THEN <<>>
                ELSE Get(publisher_rows[p], "Publisher Name", None)
        failing == {k \in 1..Len(title_rows) : auths(title_rows[k]) # {}}
        first_failing == IF failing = {} THEN Len(title_rows) + 1
                         ELSE CHOOSE k \in failing : \A j \in failing : k <= j
    IN  IF bad_order THEN [raises |-> TRUE, rows |-> <<>>]
        ELSE [raises |-> failing # {},
              rows |-> [k \in 1..(first_failing - 1) |->
                          << Get(title_rows[k], "Title", <<>>), <<>>,
                             Get(title_rows[k], "Year", <<>>), pub_name(title_rows[k]),
                             Get(title_rows[k], "DOI", <<>>) >>]]

\* the rows of the fallback loop over the parsed lists
csv_fallback_rows(titles_list, authors_list) ==
    [k \in 1..Len(titles_list) |->
        LET t == titles_list[k]
            SameKey(a) == Get(a, "key", None) = Get(t, "key", None)
            mine == Filter(authors_list, SameKey)
            auths == [i \in 1..Len(mine) |->
                         Or(Get(mine[i], "name_normalized", None), Get(mine[i], "name", None))]
        IN  << Get(t, "title", <<>>), Join(auths, <<";", " ">>), Get(t, "year", <<>>),
               Or(Get(t, "publisher", <<>>), <<>>), Get(t, "doi", <<>>) >>]

\* generate_rcaap_csv(db, titles_list, authors_list): the data rows of the
\* CSV text, below the header row
generate_rcaap_csv(db_given, titles_list, authors_list) ==
    IF db_given /\ ~csv_store_rows.raises THEN csv_store_rows.rows
    ELSE (IF db_given THEN csv_store_rows.rows ELSE <<>>)
         \o csv_fallback_rows(titles_list, authors_list)

\* the parsed titles and authors the export is handed
RawTitles ==
    { ("key" :> <<"k">>) @@ ("title" :> <<"r">>) @@ ("year" :> <<"9">>)
         @@ ("publisher" :> None) @@ ("doi" :> <<"d">>),
      ("key" :> <<"m">>) @@ ("title" :> <<"s">>) }

RawAuthors ==
    << ("key" :> <<"k">>) @@ ("name" :> <<"a", " ", "b">>)
          @@ ("name_normalized" :> <<"b", ",", " ", "a">>),
       ("key" :> <<"k">>) @@ ("name" :> <<"c">>) >>

CallGenerateRcaapCsv(db_given, titles_list, authors_list) ==
    /\ pc = "idle" /\ call.op # "generate_rcaap_csv"
    /\ call' = [Call("generate_rcaap_csv", <<>>, titles_list, authors_list,
                     IF db_given THEN 1 ELSE 0, <<>>)
                   EXCEPT !.rows = generate_rcaap_csv(db_given, titles_list, authors_list)]
    /\ UNCHANGED <<dbvars, ncalls, syncvars, appvars>>

NextCsv ==
    \/ \E entries \in ListsUpTo(AppEntries, MaxAppEntries) : AppSyncBegin(entries)
    \/ AppSyncEntry
    \/ AppSyncAuthor
    \/ \E db_given \in BOOLEAN, titles_list \in ListsUpTo(RawTitles, 1) :
          CallGenerateRcaapCsv(db_given, titles_list, RawAuthors)

SpecCsv == Init /\ [][NextCsv]_vars

\* the names of the authors linked to the Title row t, in ascending integer
\* Order
LinkedAuthorNames(t) ==
    LET links == get_all_records(sheets["Author-Title"])
        Of(at) == at["ID Title"] = t["ID Title"]
        OrderOf(at) == ParseInt(at["Order"]).n
        sorted == SortedBy(Filter(links, Of), OrderOf)
        author_rows == get_all_records(sheets["Authors"])
    IN  [k \in 1..Len(sorted) |->
            author_rows[DictIndex(author_rows, "ID Author", sorted[k]["ID Author"])]["Author Name"]]

\* C27: with a readable store generate_rcaap_csv writes exactly one data row
\* per Title row of the store, carrying the title's linked authors joined by
\* '; ' in ascending integer Order, and no row of the parsed lists; without a
\* store it writes one row per parsed title
C27_CsvOneRowPerStoreTitle ==
    call.op = "generate_rcaap_csv" =>
        LET title_rows == get_all_records(sheets["Title"])
        IN  IF call.order = 1
            THEN /\ Len(call.rows) = Len(title_rows)
                 /\ \A k \in 1..Len(title_rows) :
                       /\ call.rows[k][1] = title_rows[k]["Title"]
                       /\ call.rows[k][2] = Join(LinkedAuthorNames(title_rows[k]), <<";", " ">>)
            ELSE Len(call.rows) = Len(call.x)

\* ---------------------------------------------------------------------------
\* RCAAPDatabase._append_dicts on worksheets of any layout

MaxAppendCalls == 2
MaxAppendRows == 2

\* dicts handed to _append_dicts, each with its keys in insertion order
AppendDicts ==
    { [keys |-> <<"ID Publisher", "Publisher Name">>,
       d |-> ("ID Publisher" :> Id("P", 7)) @@ ("Publisher Name" :> <<"a">>)],
      [keys |-> <<"Publisher Name", "Country", "ID Publisher">>,
       d |-> ("Publisher Name" :> <<"b">>) @@ ("Country" :> <<"c">>)
             @@ ("ID Publisher" :> Id("P", 8))],
      [keys |-> <<"Publisher Name">>, d |-> ("Publisher Name" :> <<"e">>)] }

\* the Publisher worksheets a run starts from: blank, the current layout,
\* an older one-column layout, one with a column of notes added by hand
InitialAppendSheets ==
    { Worksheet(<<>>, <<>>),
      Worksheet(PublisherHeaders, << <<Id("P", 1), <<"x">>>> >>),
      Worksheet(<<"Publisher Name">>, << <<<<"x">>>> >>),
      Worksheet(<<"ID Publisher", "Notes", "Publisher Name">>,
                << <<Id("P", 1), <<"n">>, <<"x">>>> >>) }

InitAppend ==
    /\ publishers = <<>> /\ venues = <<>> /\ titles = <<>>
    /\ authors = <<>> /\ author_titles = <<>>
    /\ counters = [prefix \in {"P", "V", "T", "A"} |-> 0]
    /\ call = NoCall /\ ncalls = 0
    /\ pc = "idle" /\ batch = [titles |-> <<>>, authors |-> <<>>] /\ loc = NoLocals
    /\ \E ws \in InitialAppendSheets : sheets = [BlankSheets EXCEPT !["Publisher"] = ws]
    /\ preview = NoPreview
    /\ curation = NoCuration
    /\ writers = NoWriters
    /\ first_pass = NoFirstPass

\* db._append_dicts('Publisher', rows)
CallAppendDicts(rows) ==
    /\ pc = "idle" /\ ncalls < MaxAppendCalls
    /\ sheets' = [sheets EXCEPT !["Publisher"] =
                     append_dict_rows(@, IF rows = <<>> THEN <<>> ELSE rows[1].keys,
                                      [k \in 1..Len(rows) |-> rows[k].d])]
    /\ call' = [Call("append_dicts", <<>>, IF rows = <<>> THEN <<>> ELSE rows[1].keys,
                     <<>>, 0, <<>>)
                   EXCEPT !.rows = [k \in 1..Len(rows) |-> rows[k].d]]
    /\ ncalls' = ncalls + 1
    /\ UNCHANGED <<dbvars, syncvars, preview, curation, writers, first_pass>>

NextAppend ==
    \E rows \in ListsUpTo(AppendDicts, MaxAppendRows) : CallAppendDicts(rows)

SpecAppend == InitAppend /\ [][NextAppend]_vars

\* the position of column col in header, 0 when it is not there
ColumnOf(header, col) ==
    IF \E j \in 1..Len(header) : header[j] = col
    THEN CHOOSE j \in 1..Len(header) : header[j] = col
    ELSE 0

\* C28: _append_dicts on a worksheet whose header is not the key list of
\* rows[0] leaves the old header in place, followed by the keys that were not
\* in it, in key order and once each; the old rows stay; every appended row
\* holds under each column of the new header the dict's value for it, or ''
C28_Step ==
    (/\ call'.op = "append_dicts" /\ ncalls' = ncalls + 1 /\ call'.rows # <<>>
     /\ sheets["Publisher"].header # <<>>
     /\ sheets["Publisher"].header # call'.x)
    => LET old == sheets["Publisher"]
           new == sheets'["Publisher"]
           keys == call'.x
           added == SubSeq(new.header, Len(old.header) + 1, Len(new.header))
       IN  /\ Len(new.header) >= Len(old.header)
           /\ SubSeq(new.header, 1, Len(old.header)) = old.header
           /\ \A i, j \in 1..Len(new.header) : i # j => new.header[i] # new.header[j]
           /\ \A i \in 1..Len(added) :
                 ColumnOf(keys, added[i]) # 0 /\ ColumnOf(old.header, added[i]) = 0
           /\ \A i, j \in 1..Len(added) :
                 i < j => ColumnOf(keys, added[i]) < ColumnOf(keys, added[j])
           /\ \A k \in 1..Len(keys) : ColumnOf(new.header, keys[k]) # 0
           /\ Len(new.rows) = Len(old.rows) + Len(call'.rows)
           /\ SubSeq(new.rows, 1, Len(old.rows)) = old.rows
           /\ \A k \in 1..Len(call'.rows) : \A j \in 1..Len(new.header) :
                 new.rows[Len(old.rows) + k][j] = Get(call'.rows[k], new.header[j], <<>>)

C28_AppendDictsMergesHeader == [][C28_Step]_vars

\* a call that added a column to a header having a column the dict lacks
C28_Witness ==
    /\ call.op = "append_dicts" /\ Len(call.rows) = 2
    /\ sheets["Publisher"].header = <<"ID Publisher", "Notes", "Publisher Name", "Country">>
    /\ call.rows[2] = ("Publisher Name" :> <<"e">>)

\* the rows of worksheet title in which column holds value, after the step
RowsHolding(ws, column, value) ==
    LET rows == get_all_records(ws)
    IN  {i \in 1..Len(rows) : Get(rows[i], column, <<>>) = value}

\* C29: when an operation of sync_entries raises while a title is being
\* processed, no worksheet loses or changes a row written before: every step
\* of a pass, the raising one included, leaves each worksheet's header and
\* earlier rows as they were, and the pass ends with the Publisher, Venue
\* and Title rows of that title in the store
C29_Step ==
    /\ pc # "idle" =>
          \A title \in DOMAIN sheets :
              /\ sheets'[title].header = sheets[title].header
              /\ Len(sheets'[title].rows) >= Len(sheets[title].rows)
              /\ SubSeq(sheets'[title].rows, 1, Len(sheets[title].rows)) = sheets[title].rows
    /\ (call'.raised /\ ~call.raised) =>
          LET t == batch.titles[loc.i]
              pub_name == Get(t, "publisher", <<>>)
              venue_name == Get(t, "journal", <<>>)
          IN  /\ pc' = "idle"
              /\ Truthy(pub_name) =>
                    RowsHolding(sheets'["Publisher"], "ID Publisher", loc.id_pub) # {}
              /\ Truthy(venue_name) =>
                    RowsHolding(sheets'["Venue"], "ID Venue", loc.id_venue) # {}
              /\ RowsHolding(sheets'["Title"], "ID Title", loc'.id_title) # {}

C29_NoRollbackOnRaise == [][C29_Step]_vars

\* a pass that raised on its second title, the rows of both titles in place
C29_Witness ==
    /\ call.raised /\ pc = "idle" /\ loc.i = 2
    /\ Len(sheets["Title"].rows) = 2
    /\ Len(sheets["Publisher"].rows) = 2
    /\ Len(sheets["Venue"].rows) = 1

\* ---------------------------------------------------------------------------
\* sync_entries on the in-memory store is one synchronous call: once begun,
\* its steps are taken until it returns

MaxLiveAuthors == 1

\* one pass into a store that is new
NextSyncOnce ==
    \/ \E ts \in ListsUpTo(SyncTitleRows, MaxBatch),
          as \in ListsUpTo(SyncAuthorRows, MaxLiveAuthors) :
          titles = <<>> /\ SyncBegin(ts, as)
    \/ SyncPublisher
    \/ SyncVenue
    \/ SyncTitle
    \/ SyncAuthor

SpecSyncLive ==
    /\ Init /\ [][NextSyncOnce]_vars
    /\ WF_vars(SyncPublisher \/ SyncVenue \/ SyncTitle \/ SyncAuthor)

\* the pass has returned without raising, the Title rows it created being the
\* last rows of the table, one per title of the batch and in the batch's order
SyncCompleted ==
    /\ pc = "idle" /\ ~call.raised
    /\ Len(titles) >= Len(batch.titles)
    /\ \A k \in 1..Len(batch.titles) :
          LET row == titles[Len(titles) - Len(batch.titles) + k]
          IN  /\ row["Title"] = OrEmpty(Get(batch.titles[k], "title", <<>>))
              /\ row["DOI"] = OrEmpty(Get(batch.titles[k], "doi", <<>>))
              /\ row["ID Title"] = Id("T", Len(titles) - Len(batch.titles) + k)

\* C30: a sync_entries pass on the in-memory store, whatever strings, None
\* or missing fields its rows hold and whatever their order values are,
\* returns without raising after one Title row per title of the batch has
\* been created, in the order of the batch
C30_SyncRunsToCompletion == (pc # "idle") ~> SyncCompleted

\* a finished pass of two titles, one without title text or journal and one
\* whose author came with an order that is no number
C30_Witness ==
    /\ SyncCompleted
    /\ Len(batch.titles) = 2
    /\ Get(batch.titles[1], "title", <<>>) = None
    /\ \E i \in 1..Len(batch.authors) :
          Get(batch.authors[i], "order", NoneVal) = StrVal(<<"f">>)
    /\ \E l \in 1..Len(author_titles) : author_titles[l]["Order"] = <<"0">>

\* the (name_normalized, key, orcid) triple of an author row
AuthorTriple(r) == <<r["name_normalized"], r["key"], r["orcid"]>>

\* the rows entries_to_authors builds for the entries, before _dedupe_rows
EncounteredAuthors(entries) ==
    Concat([i \in 1..Len(entries) |-> entry_authors(entries[i])])

\* where in seq the triple of row r is first met
FirstMet(seq, r) ==
    CHOOSE i \in 1..Len(seq) :
        /\ AuthorTriple(seq[i]) = AuthorTriple(r)
        /\ \A j \in 1..(i - 1) : AuthorTriple(seq[j]) # AuthorTriple(r)

\* C31: the rows entries_to_authors returns have pairwise distinct
\* (name_normalized, key, orcid) triples; each is the first row met with its
\* triple, every triple met is among them, and they stand in the order in
\* which they were met
C31_AuthorsDedupedFirstKept ==
    call.op = "entries_to_authors" =>
        LET met == EncounteredAuthors(call.x)
            out == batch.authors
        IN  /\ \A i, j \in 1..Len(out) :
                  i # j => AuthorTriple(out[i]) # AuthorTriple(out[j])
            /\ \A i \in 1..Len(met) :
                  \E k \in 1..Len(out) : AuthorTriple(out[k]) = AuthorTriple(met[i])
            /\ \A k \in 1..Len(out) :
                  /\ \E i \in 1..Len(met) : AuthorTriple(met[i]) = AuthorTriple(out[k])
                  /\ out[k] = met[FirstMet(met, out[k])]
            /\ \A k, l \in 1..Len(out) :
                  k < l => FirstMet(met, out[k]) < FirstMet(met, out[l])

\* an author written twice in one entry, returned once with order 1, before
\* the entry's other author
C31_Witness ==
    /\ call.op = "entries_to_authors"
    /\ Len(EncounteredAuthors(call.x)) = 3
    /\ Len(batch.authors) = 2
    /\ batch.authors[1]["name"] = <<"a">> /\ batch.authors[1]["order"] = IntVal(1)
    /\ batch.authors[2]["name"] = <<"b">> /\ batch.authors[2]["order"] = IntVal(3)

(***************************************************************************)
(* A store that already holds many rows                                    *)
(***************************************************************************)
\* the number of Title rows created before the calls that are explored
RowsBefore == 998

\* the store after RowsBefore calls of create_title("t")
InitMany ==
    /\ publishers = <<>> /\ venues = <<>>
    /\ titles = [i \in 1..RowsBefore |->
                    TitleRow(<<"T">> \o Fmt03d(i), <<"t">>, None, None, None,
                             None, None, None, None, None)]
    /\ authors = <<>> /\ author_titles = <<>>
    /\ counters = [prefix \in {"P", "V", "T", "A"} |->
                      IF prefix = "T" THEN RowsBefore ELSE 0]
    /\ call = NoCall /\ ncalls = 0
    /\ pc = "idle" /\ batch = [titles |-> <<>>, authors |-> <<>>] /\ loc = NoLocals
    /\ sheets = BlankSheets
    /\ preview = NoPreview
    /\ curation = NoCuration
    /\ writers = NoWriters
    /\ first_pass = NoFirstPass

\* a client that goes on creating rows
NextMany ==
    \/ \E name \in PublisherNames : CallGetOrCreatePublisher(name)
    \/ \E a \in TitleArgs : CallCreateTitle(<<"t">>, a.id_venue, a.doi)
    \/ \E name \in AuthorNames, d \in AuthorDetails :
          CallGetOrCreateAuthor(name, d.orcid, d.affiliation)

SpecMany == InitMany /\ [][NextMany]_vars

\* one prefix letter followed by exactly three decimal digits
IsThreeDigitId(id, prefix) ==
    /\ Len(id) = 4
    /\ id[1] = prefix
    /\ IsDigit(SubSeq(id, 2, 4))

\* C32: every identifier assigned is its table's prefix letter followed by
\* exactly three decimal digits, however many rows have been created
C32_IdsHaveThreeDigits ==
    /\ \A i \in 1..Len(publishers) : IsThreeDigitId(publishers[i]["ID Publisher"], "P")
    /\ \A i \in 1..Len(venues) : IsThreeDigitId(venues[i]["ID Venue"], "V")
    /\ \A i \in 1..Len(titles) : IsThreeDigitId(titles[i]["ID Title"], "T")
    /\ \A i \in 1..Len(authors) : IsThreeDigitId(authors[i]["ID Author"], "A")

\* row is row_before with at most the fields of changeable given other values
SameBut(row_before, row, changeable) ==
    /\ DOMAIN row = DOMAIN row_before
    /\ \A f \in DOMAIN row_before : f \notin changeable => row[f] = row_before[f]

\* table_after holds every row of table_before at its place, changed at most
\* in the fields of changeable
GrownFrom(table_before, table_after, changeable) ==
    /\ Len(table_after) >= Len(table_before)
    /\ \A i \in 1..Len(table_before) :
          SameBut(table_before[i], table_after[i], changeable)

C33_Step ==
    /\ GrownFrom(publishers, publishers', {})
    /\ GrownFrom(titles, titles', {})
    /\ GrownFrom(venues, venues', {"ID Publisher"})
    /\ GrownFrom(authors, authors', {"ORCID", "Affiliation"})
    /\ GrownFrom(author_titles, author_titles', {"Order"})

\* C33: no operation of InMemoryRelationalDB removes a row or changes the ID
\* or the name of an existing row; every table only grows, Publisher and
\* Title rows are never modified, and the only fields that change are a
\* Venue's ID Publisher, an Author's ORCID and Affiliation and an
\* Author-Title row's Order
C33_RowsKeptAndOnlyPatchableFieldsChange == [][C33_Step]_vars

\* a store whose venue was created under one publisher and found again under
\* another, so that its ID Publisher was changed and nothing else was
C33_Witness ==
    /\ call.op = "get_or_create_venue" /\ call.prev.op = "get_or_create_venue"
    /\ call.x = Id("P", 2) /\ call.prev.x = Id("P", 1)
    /\ Len(venues) = 1
    /\ venues[1]["ID Venue"] = Id("V", 1)
    /\ venues[1]["ID Publisher"] = Id("P", 2)

C34_Step ==
    /\ (call'.op = "export_rcaap_rows" /\ ncalls' = ncalls + 1) =>
           UNCHANGED <<publishers, venues, titles, authors, author_titles, counters>>
    /\ (call.op = "export_rcaap_rows" /\ call'.op = "export_rcaap_rows"
            /\ ncalls' = ncalls + 1) =>
           /\ call'.raised = call.raised
           /\ call'.rows = call.rows

LinkedNames(id_title) ==
    {authors[a]["Author Name"] :
        a \in {k \in 1..Len(authors) :
                  \E l \in 1..Len(author_titles) :
                      /\ author_titles[l]["ID Title"] = id_title
                      /\ author_titles[l]["ID Author"] = authors[k]["ID Author"]}}

\* the names of the authors of the entry e
EntryNames(e) == {entry_authors(e)[k]["name"] : k \in 1..Len(entry_authors(e))}

\* sync_entries has gone through the batch made from entries, on a new store
SyncedFrom(entries) ==
    /\ pc = "idle" /\ entries # <<>>
    /\ Len(titles) = Len(entries)
    /\ batch.titles = entries_to_titles(entries)
    /\ batch.authors = entries_to_authors(entries).rows

\* C35: after sync_entries of the titles and authors made from one list of
\* entries, the Title of each entry is linked to the authors of that entry
\* and to no author of another entry, also when two entries have the same
\* citation key or none
C35_TitleLinkedToItsEntrysAuthors ==
    \A entries \in ListsUpTo(BibEntries, MaxEntries) :
        SyncedFrom(entries) =>
            \A i \in 1..Len(entries) :
                LinkedNames(titles[i]["ID Title"]) = EntryNames(entries[i])

\* C36: sync_entries never creates a Publisher or Venue row whose stored
\* name is empty, also when the title's publisher or journal field holds
\* only blanks
C36_NoEmptyNamedPublisherOrVenue ==
    /\ \A i \in 1..Len(publishers) : publishers[i]["Publisher Name"] # <<>>
    /\ \A i \in 1..Len(venues) : venues[i]["Venue Name"] # <<>>

(***************************************************************************)
(* sync_entries called twice with one batch                                *)
(***************************************************************************)
\* sync_entries(db, titles, authors) has returned and is called again with
\* the same titles and authors
SyncAgain ==
    /\ pc = "idle"
    /\ batch.titles # <<>>
    /\ ~first_pass.again
    /\ Len(titles) = Len(batch.titles)
    /\ first_pass' = [again |-> TRUE, publishers |-> publishers,
                      venues |-> venues, authors |-> authors]
    /\ pc' = "publisher" /\ loc' = [NoLocals EXCEPT !.i = 1]
    /\ UNCHANGED <<dbvars, call, ncalls, batch, sheets, preview, curation, writers>>

\* a pass into a new store, and the same pass once more
NextTwice ==
    \/ \E ts \in ListsUpTo(SyncTitleRows, MaxBatch), as \in ListsUpTo(SyncAuthorRows, MaxBatch) :
          titles = <<>> /\ SyncBegin(ts, as)
    \/ SyncAgain
    \/ SyncPublisher
    \/ SyncVenue
    \/ SyncTitle
    \/ SyncAuthor

SpecTwice == Init /\ [][NextTwice]_vars

\* the second call has returned
SecondPassDone == first_pass.again /\ pc = "idle"

\* C37: a second call of sync_entries with the same batch adds no Publisher,
\* Venue or Author row and leaves every field of the Publisher, Venue and
\* Author rows as the first call left it
C37_SecondPassKeepsPublishersVenuesAuthors ==
    SecondPassDone =>
        /\ publishers = first_pass.publishers
        /\ venues = first_pass.venues
        /\ authors = first_pass.authors

\* the second pass of a batch whose two titles name one journal under
\* different publishers has returned: the venue was given the first title's
\* publisher and then the second title's again, and an author's ORCID filled
\* in by the first pass is still there
C37_Witness ==
    /\ SecondPassDone
    /\ Len(batch.titles) = 2 /\ Len(titles) = 4
    /\ Len(venues) = 1 /\ Len(publishers) = 1
    /\ venues[1]["ID Publisher"] = <<>>
    /\ Len(authors) >= 1
    /\ Len(author_titles) >= 2

====
